---- MODULE Spec2Model ----
(***************************************************************************)
(* EPANET-MSX core toolkit (coretoolkit.c) and project data manager        *)
(* (msxproj.c): the project struct, the process-wide name hash tables and  *)
(* the exported API handlers, each translated as a function from the       *)
(* state before the call to the state after it and its return code.        *)
(*                                                                         *)
(* Conventions.                                                            *)
(*  - A handler H(M, T, args) takes the project struct M, the hash tables  *)
(*    T and its arguments and yields [ret, M, H, ub]: the return code, the *)
(*    struct and tables after the call, and whether the call executed      *)
(*    undefined behaviour (a dereference or free of an unset pointer).     *)
(*  - Arrays are 1-based sequences; slot 0 of the C arrays is not stored.  *)
(*  - A pointer to a double vector is [st, v]: st = "null" (NULL), "wild"  *)
(*    (field of a realloc'ed struct never assigned) or "ok" (allocated,    *)
(*    slots 1..Len(v)).                                                    *)
(*  - The C `.h` of the struct types is not part of the sources; field     *)
(*    names are those the handlers use.                                    *)
(*  - Allocation is assumed to succeed in the exported handlers; the calls *)
(*    of buildadjlists and MSXproj_open take the allocations the heap      *)
(*    grants as an input.                                                  *)
(***************************************************************************)
EXTENDS Integers, Sequences, FiniteSets, TLC

VARIABLES
    MSX,        \* [Projects -> project struct]
    Htable,     \* the static hash tables of msxproj.c (one set per process)
    prevMSX,    \* MSX before the last call
    prevHtable, \* Htable before the last call
    last,       \* the last call: [op, p, ret, a, out] (a = its arguments)
    prior,      \* the call before the last, when that call was MSX_init
    inited,     \* per project: MSX_init has returned 0 since the last MSX_open
    calls,      \* number of calls made so far
    cfgcalls,   \* number of add*/set* configuration calls made so far
    ub          \* TRUE once a call has executed undefined behaviour

vars == <<MSX, Htable, prevMSX, prevHtable, last, prior, inited, calls, cfgcalls, ub>>

----------------------------------------------------------------------------
(* Bounds of the model *)

MaxObj == 2          \* objects of one kind a run adds
MaxCalls == 4        \* API calls in a run of the topology specification
MaxMult == 2         \* multipliers a caller passes to MSXsetpattern
MaxInitCalls == 5    \* API calls in a run of the initialisation specification
MaxTwoCalls == 4     \* API calls in a run of the two-project specification
MaxCfgCalls == 4     \* API calls in a run of the configuration specification
MaxCfgOps == 2       \* add*/set* calls among them
MaxPatCalls == 4     \* API calls in a run of the pattern specification
MaxExprCalls == 5    \* API calls in a run of the expression specification
MaxFileCalls == 6    \* calls in a run of the file specification
MaxQualCalls == 3    \* calls in a run of the transport specification
MaxObjCalls == 2     \* API calls in a run of the query specification
MaxSrcCalls == 2     \* API calls in a run of the source specification
MaxValCalls == 1     \* API calls in a run of the pattern value specification
MaxVecCalls == 2     \* API calls in a run of the stored value specification
MaxAdjCalls == 2     \* calls in a run of the adjacency specification
MaxLegCalls == 2     \* calls in a run of the legacy open specification

Projects == {1, 2}
IDS == {"a", "b"}    \* object id strings the callers use

----------------------------------------------------------------------------
(* Object kinds and codes *)

NODE == "NODE"
LINK == "LINK"
TANK == "TANK"
SPECIES == "SPECIES"
TERM == "TERM"
PARAMETER == "PARAMETER"
MSX_CONSTANT == "CONSTANT"
PATTERN == "PATTERN"
Kinds == {NODE, LINK, TANK, SPECIES, TERM, PARAMETER, MSX_CONSTANT, PATTERN}

NOERR == "0"
ERR_MSX_NOT_OPENED == "ERR_MSX_NOT_OPENED"
ERR_MSX_OPENED == "ERR_MSX_OPENED"
ERR_INVALID_OBJECT_TYPE == "ERR_INVALID_OBJECT_TYPE"
ERR_INVALID_OBJECT_INDEX == "ERR_INVALID_OBJECT_INDEX"
ERR_UNDEFINED_OBJECT_ID == "ERR_UNDEFINED_OBJECT_ID"
ERR_INVALID_OBJECT_PARAMS == "ERR_INVALID_OBJECT_PARAMS"
ERR_KEYWORD == "ERR_KEYWORD"
ERR_NUMBER == "ERR_NUMBER"
ERR_NAME == "ERR_NAME"
ERR_DUP_NAME == "ERR_DUP_NAME"
ERR_DUP_EXPR == "ERR_DUP_EXPR"
ERR_MATH_EXPR == "ERR_MATH_EXPR"
ERR_MEMORY == "ERR_MEMORY"
ERR_OPEN_MSX_FILE == "ERR_OPEN_MSX_FILE"
ERR_READING_MSX_FILE == "ERR_READING_MSX_FILE"

BULK == 0
WALL == 1
NO_EXPR == 0

\* doubles that are divided by unit factors are kept as exact fractions
RECURSIVE GCD(_, _)
GCD(x, y) == IF y = 0 THEN x ELSE GCD(y, x % y)
Quot(n, d) == IF n = 0 THEN [n |-> 0, d |-> 1]
              ELSE [n |-> n \div GCD(n, d), d |-> d \div GCD(n, d)]
Frac(n) == [n |-> n, d |-> 1]
FracDiv(x, u) == Quot(x.n * u.d, x.d * u.n)     \* x /= u

----------------------------------------------------------------------------
(* Heap vectors *)

VecNull == [st |-> "null", v |-> <<>>]
VecWild == [st |-> "wild", v |-> <<>>]

\* calloc(n+1, sizeof(double)): slots 1..n zeroed
Calloc(n) == [st |-> "ok", v |-> [j \in 1..n |-> 0]]

\* The pointer field of a new array element: zero from calloc (first
\* element), unset after realloc (later elements).
FreshPtr(n) == IF n = 1 THEN VecNull ELSE VecWild

\* realloc(vec, (n+1)*sizeof(double)) followed by `for j=1..n: vec[j] = 0`
ReallocZero(vec, n) == Calloc(n)

\* whether realloc/free of the pointer is undefined behaviour
BadPtr(vec) == vec.st = "wild"

----------------------------------------------------------------------------
(* Result of a handler *)

\* out: the values written through the output pointers, in parameter order
RetOut(code, M, T, out) == [ret |-> code, M |-> M, H |-> T, ub |-> FALSE, out |-> out]
Ret(code, M, T) == RetOut(code, M, T, <<>>)
RetUB(code, M, T) == [ret |-> code, M |-> M, H |-> T, ub |-> TRUE, out |-> <<>>]

----------------------------------------------------------------------------
(* Hash tables: msxproj.c *)

NoTab == [k \in Kinds |-> [i \in IDS |-> -1]]

\* Htable[type] and HashPool before any createHashTables
HtableInit == [st |-> "null", tab |-> NoTab]

findObject_NoLookup(T, type, id) == -1

\* MSXproj_findObject: index of the object with the given id, or -1
findObject(T, type, id) == IF id \in IDS THEN T.tab[type][id] ELSE -1

\* MSXproj_addObject: [res, H]; 0 if the id is already in the table,
\* 1 after inserting it with index n
addObject(T, type, id, n) ==
    IF findObject(T, type, id) > 0
    THEN [res |-> 0, H |-> T]
    ELSE [res |-> 1, H |-> [T EXCEPT !.tab[type][id] = n]]

\* createHashTables: a fresh table per kind and a fresh pool; the previous
\* tables, if any, are not freed
createHashTables(T) == [st |-> "live", tab |-> NoTab]

\* deleteHashTables: HTfree of every table and of the pool; the static
\* pointers keep their (now dangling) values
deleteHashTables(T) == [T EXCEPT !.st = IF T.st = "null" THEN "null" ELSE "freed"]

\* checkID: an id must not name a species, term, parameter or constant
\* (the namespace of expression variables)
checkID(T, id) ==
    IF \/ findObject(T, SPECIES, id) > 0
       \/ findObject(T, TERM, id) > 0
       \/ findObject(T, PARAMETER, id) > 0
       \/ findObject(T, MSX_CONSTANT, id) > 0
    THEN ERR_DUP_NAME
    ELSE NOERR

\* a handler that reaches HTfind/HTinsert dereferences Htable[type]: with
\* the tables not created or already freed the call is undefined
Tab(T, R) == IF T.st = "live" THEN R ELSE [R EXCEPT !.ub = TRUE]

----------------------------------------------------------------------------
(* The project struct *)

US == "US"
GPM == "GPM"
\* enumerated settings hold the keyword of their value
EUL == "EUL"
NO_COUPLING == "NONE"
NO_COMPILER == "NONE"
FT2 == "FT2"
DAYS == "DAY"
DefQstep == 300
DefRtolMilli == 1      \* 0.001, in thousandths
DefAtolMilli == 10     \* 0.01, in thousandths

\* Adjlist: NULL, or one list of (neighbour node, link) entries per node,
\* newest entry first
AdjNull == [st |-> "null", list |-> <<>>]

NoFiles == [Rpt |-> "NULL", Hyd |-> "NULL", Out |-> "NULL", Tmp |-> "NULL"]

\* The struct as the caller hands it to MSX_open: no function of the toolkit
\* initialises QualityOpened before the add* guards read it, so q ranges
\* over both values.
NewProject(q) ==
    [ ProjectOpened |-> FALSE, QualityOpened |-> q, Initialized |-> FALSE,
      Nobjects |-> [k \in Kinds |-> 0],
      Node |-> <<>>, Link |-> <<>>, Tank |-> <<>>, Species |-> <<>>,
      Term |-> <<>>, Param |-> <<>>, Const |-> <<>>, Pattern |-> <<>>,
      C0 |-> VecNull, D |-> VecNull, H |-> VecNull, Q |-> VecNull,
      Adjlist |-> AdjNull,
      MsxFile |-> "NULL",   \* MsxFile.file: NULL or the open input file
      Files |-> NoFiles, RptName |-> "", PageSize |-> 0,
      Unitsflag |-> US, Flowflag |-> GPM,
      DefRtol |-> DefRtolMilli, DefAtol |-> DefAtolMilli,
      Solver |-> EUL, Coupling |-> NO_COUPLING, Compiler |-> NO_COMPILER,
      AreaUnits |-> FT2, RateUnits |-> DAYS, Qstep |-> DefQstep,
      Qtime |-> 0,
      Trees |-> 0,      \* expression trees created so far (their numbering)
      Pipe |-> <<>> ]   \* per link: volume, flow direction, segment deque

\* setDefaults: Param, C0 and the open flags are not among the fields it
\* assigns
setDefaults(M) ==
    [M EXCEPT
       !.Files = NoFiles, !.RptName = "",
       !.Nobjects = [k \in Kinds |-> 0],
       !.Unitsflag = US, !.Flowflag = GPM,
       !.DefRtol = DefRtolMilli, !.DefAtol = DefAtolMilli,
       !.Solver = EUL, !.Coupling = NO_COUPLING, !.Compiler = NO_COMPILER,
       !.AreaUnits = FT2, !.RateUnits = DAYS, !.Qstep = DefQstep,
       !.Node = <<>>, !.Link = <<>>, !.Tank = <<>>,
       !.D = VecNull, !.Q = VecNull, !.H = VecNull,
       !.Species = <<>>, !.Term = <<>>, !.Const = <<>>, !.Pattern = <<>>,
       !.Adjlist = AdjNull]

Closed(M) == (~M.ProjectOpened) \/ (~M.QualityOpened)

\* array after `n == 1 ? calloc : realloc` and the assignment of slot n
Grow(arr, n, elem) == IF n = 1 THEN <<elem>> ELSE SubSeq(arr, 1, n - 1) \o <<elem>>

----------------------------------------------------------------------------
(* Lifecycle: coretoolkit.c *)

MSX_open(M, T) ==
    Ret(NOERR, setDefaults([M EXCEPT !.ProjectOpened = TRUE]),
        createHashTables(T))

\* MSXqual_close: leaves the QualityOpen / Initialized phases
MSXqual_close(M) ==
    [M EXCEPT !.QualityOpened = FALSE, !.Initialized = FALSE, !.Pipe = <<>>]

\* free() or mathexpr_delete() applied to a pointer that was never set
FreesWild(M) ==
    \/ \E i \in 1..Len(M.Node) : BadPtr(M.Node[i].c) \/ BadPtr(M.Node[i].c0)
    \/ \E i \in 1..Len(M.Link) :
          BadPtr(M.Link[i].c0) \/ BadPtr(M.Link[i].param) \/ BadPtr(M.Link[i].reacted)
    \/ \E i \in 1..Len(M.Tank) :
          BadPtr(M.Tank[i].param) \/ BadPtr(M.Tank[i].c) \/ BadPtr(M.Tank[i].reacted)
    \/ \E i \in 1..Len(M.Term) : M.Term[i].expr.st = "wild"

\* deleteObjects: every array is freed and its pointer set to NULL;
\* Nobjects keeps its counts
deleteObjects(M) ==
    [M EXCEPT
       !.Node = <<>>, !.Link = <<>>, !.Tank = <<>>, !.Pattern = <<>>,
       !.D = VecNull, !.H = VecNull, !.Q = VecNull, !.C0 = VecNull,
       !.Species = <<>>, !.Param = <<>>, !.Const = <<>>, !.Term = <<>>]

\* "close all files" with the test that keeps an aliased handle from being
\* closed through both of its names left out
CloseFiles_NoAliasTest(F) ==
    (IF F.Rpt # "NULL" THEN <<F.Rpt>> ELSE <<>>)
      \o (IF F.Hyd # "NULL" THEN <<F.Hyd>> ELSE <<>>)
      \o (IF F.Tmp # "NULL" THEN <<F.Tmp>> ELSE <<>>)
      \o (IF F.Out # "NULL" THEN <<F.Out>> ELSE <<>>)

\* "close all files": the handles passed to fclose, in call order
CloseFiles(F) ==
    (IF F.Rpt # "NULL" THEN <<F.Rpt>> ELSE <<>>)
      \o (IF F.Hyd # "NULL" THEN <<F.Hyd>> ELSE <<>>)
      \o (IF F.Tmp # "NULL" /\ F.Tmp # F.Out THEN <<F.Tmp>> ELSE <<>>)
      \o (IF F.Out # "NULL" THEN <<F.Out>> ELSE <<>>)

\* "delete all temporary files": the files passed to remove(); OutFile is
\* a scratch file (setDefaults) and nothing in the API changes its mode
RemoveFiles == {"OutFile", "TmpOutFile"}

\* "free memory used by reaction rate & equilibrium expressions" and "by
\* intermediate terms": the trees passed to mathexpr_delete, in call order
\* (a NULL argument releases nothing)
DeleteExprs(M) ==
    LET ns == IF M.Species = <<>> THEN 0 ELSE M.Nobjects[SPECIES]
        nt == IF M.Term = <<>> THEN 0 ELSE M.Nobjects[TERM]
        Of(e) == IF e.st = "null" THEN <<>> ELSE <<e.addr>>
        sp[i \in 0..ns] ==
            IF i = 0 THEN <<>>
            ELSE sp[i - 1]
                   \o (IF M.Species[i].tankExpr.addr # M.Species[i].pipeExpr.addr
                       THEN Of(M.Species[i].tankExpr) ELSE <<>>)
                   \o Of(M.Species[i].pipeExpr)
        tm[i \in 0..nt] ==
            IF i = 0 THEN <<>> ELSE tm[i - 1] \o Of(M.Term[i].expr)
    IN  sp[ns] \o tm[nt]

\* out: the fclose calls made, the files removed and the trees released
MSX_close(M, T) ==
    LET M1 == [M EXCEPT !.Files = NoFiles]
        M2 == MSXqual_close(M1)
        M3 == deleteObjects(M2)
        T1 == deleteHashTables(T)
        M4 == [M3 EXCEPT !.ProjectOpened = FALSE]
        out == <<CloseFiles(M.Files), RemoveFiles, DeleteExprs(M)>>
    IN  IF FreesWild(M2) \/ T.st = "freed"
        THEN [RetOut(NOERR, M4, T1, out) EXCEPT !.ub = TRUE]
        ELSE RetOut(NOERR, M4, T1, out)

\* MSXproj_close (legacy): as MSX_close, without MSXqual_close; also removes
\* HydFile when it is a scratch file (it is a used file: setDefaults)
MSXproj_close(M, T) ==
    LET M1 == [M EXCEPT !.Files = NoFiles]
        M3 == deleteObjects(M1)
        T1 == deleteHashTables(T)
        M4 == [M3 EXCEPT !.ProjectOpened = FALSE]
        out == <<CloseFiles(M.Files), RemoveFiles, DeleteExprs(M)>>
    IN  IF FreesWild(M1) \/ T.st = "freed"
        THEN [RetOut(NOERR, M4, T1, out) EXCEPT !.ub = TRUE]
        ELSE RetOut(NOERR, M4, T1, out)

\* openRptFile (legacy): closes the report file if open and opens it anew;
\* ok: fopen succeeds
ERR_OPEN_RPT_FILE == "ERR_OPEN_RPT_FILE"
openRptFile(M, T, ok) ==
    IF ok THEN Ret(NOERR, [M EXCEPT !.Files.Rpt = "rpt"], T)
    ELSE Ret(ERR_OPEN_RPT_FILE, [M EXCEPT !.Files.Rpt = "NULL"], T)

\* MSXout_open: the results file is opened on the first write of an
\* initialised project; the temporary results file is the same handle
\* (alias) or a file of its own
MSXout_open(M, T, alias) ==
    IF ~M.Initialized \/ M.Files.Out # "NULL" THEN Ret(NOERR, M, T)
    ELSE Ret(NOERR, [M EXCEPT !.Files.Out = "out",
                              !.Files.Tmp = IF alias THEN "out" ELSE "tmp"], T)

----------------------------------------------------------------------------
(* Topology construction: coretoolkit.c *)

NewNode(id, tank, n) ==
    [id |-> id, tank |-> tank, rpt |-> 0, sources |-> <<>>,
     c |-> FreshPtr(n), c0 |-> FreshPtr(n)]

NewTank(id, node, a, v0, mixModel, vMix, n) ==
    [id |-> id, node |-> node, a |-> a, v0 |-> v0, mixModel |-> mixModel,
     vMix |-> vMix, param |-> FreshPtr(n), c |-> FreshPtr(n),
     reacted |-> FreshPtr(n)]

NewLink(id, x, y, diam, len, roughness, n) ==
    [id |-> id, n1 |-> x, n2 |-> y, diam |-> diam, len |-> len,
     roughness |-> roughness, rpt |-> 0, param |-> VecNull,
     c0 |-> FreshPtr(n), reacted |-> FreshPtr(n)]

MSXaddNode(M, T, id) ==
    IF Closed(M) THEN Ret(ERR_MSX_NOT_OPENED, M, T)
    ELSE Tab(T,
      IF findObject(T, NODE, id) >= 1 THEN Ret(ERR_INVALID_OBJECT_PARAMS, M, T)
    ELSE IF checkID(T, id) # NOERR THEN Ret(checkID(T, id), M, T)
    ELSE
      LET T1 == addObject(T, NODE, id, M.Nobjects[NODE] + 1).H
          nNodes == M.Nobjects[NODE] + 1
      IN  Ret(NOERR,
              [M EXCEPT !.Node = Grow(@, nNodes, NewNode(id, 0, nNodes)),
                        !.Nobjects[NODE] = @ + 1],
              T1))

\* the common body of MSXaddTank and MSXaddReservoir without the assignment
\* of the new node's tank index
AddTankLike_NoBackRef(M, T, id, a, initialVolume, mixModel, volumeMix) ==
    IF Closed(M) THEN Ret(ERR_MSX_NOT_OPENED, M, T)
    ELSE Tab(T,
      IF findObject(T, TANK, id) >= 1 THEN Ret(ERR_INVALID_OBJECT_PARAMS, M, T)
    ELSE IF checkID(T, id) # NOERR THEN Ret(checkID(T, id), M, T)
    ELSE
      LET T1 == addObject(T, TANK, id, M.Nobjects[TANK] + 1).H
          T2 == addObject(T1, NODE, id, M.Nobjects[NODE] + 1).H
          nTanks == M.Nobjects[TANK] + 1
          nNodes == M.Nobjects[NODE] + 1
      IN  Ret(NOERR,
              [M EXCEPT
                 !.Tank = Grow(@, nTanks,
                     NewTank(id, nNodes, a, initialVolume, mixModel, volumeMix, nTanks)),
                 !.Node = Grow(@, nNodes, NewNode(id, 0, nNodes)),
                 !.Nobjects[NODE] = @ + 1,
                 !.Nobjects[TANK] = @ + 1],
              T2))

\* common body of MSXaddTank (a = 1.0) and MSXaddReservoir (a = 0.0)
AddTankLike(M, T, id, a, initialVolume, mixModel, volumeMix) ==
    IF Closed(M) THEN Ret(ERR_MSX_NOT_OPENED, M, T)
    ELSE Tab(T,
      IF findObject(T, TANK, id) >= 1 THEN Ret(ERR_INVALID_OBJECT_PARAMS, M, T)
    ELSE IF checkID(T, id) # NOERR THEN Ret(checkID(T, id), M, T)
    ELSE
      LET T1 == addObject(T, TANK, id, M.Nobjects[TANK] + 1).H
          T2 == addObject(T1, NODE, id, M.Nobjects[NODE] + 1).H
          nTanks == M.Nobjects[TANK] + 1
          nNodes == M.Nobjects[NODE] + 1
      IN  Ret(NOERR,
              [M EXCEPT
                 !.Tank = Grow(@, nTanks,
                     NewTank(id, nNodes, a, initialVolume, mixModel, volumeMix, nTanks)),
                 !.Node = Grow(@, nNodes, NewNode(id, nTanks, nNodes)),
                 !.Nobjects[NODE] = @ + 1,
                 !.Nobjects[TANK] = @ + 1],
              T2))

MSXaddTank(M, T, id, initialVolume, mixModel, volumeMix) ==
    AddTankLike(M, T, id, 1, initialVolume, mixModel, volumeMix)

MSXaddReservoir(M, T, id, initialVolume, mixModel, volumeMix) ==
    AddTankLike(M, T, id, 0, initialVolume, mixModel, volumeMix)

MSXaddLink(M, T, id, startNode, endNode, length, diameter, roughness) ==
    IF Closed(M) THEN Ret(ERR_MSX_NOT_OPENED, M, T)
    ELSE Tab(T,
      IF findObject(T, LINK, id) >= 1 THEN Ret(ERR_INVALID_OBJECT_PARAMS, M, T)
    ELSE IF checkID(T, id) # NOERR THEN Ret(checkID(T, id), M, T)
    ELSE
      LET T1 == addObject(T, LINK, id, M.Nobjects[LINK] + 1).H
          x == findObject(T1, NODE, startNode)
          y == findObject(T1, NODE, endNode)
          nLinks == M.Nobjects[LINK] + 1
      IN  IF x <= 0 THEN Ret(ERR_NAME, M, T1)
          ELSE IF y <= 0 THEN Ret(ERR_NAME, M, T1)
          ELSE Ret(NOERR,
                   [M EXCEPT
                      !.Link = Grow(@, nLinks,
                          NewLink(id, x, y, diameter, length, roughness, nLinks)),
                      !.Nobjects[LINK] = @ + 1],
                   T1))

\* mathexpr_create: NULL for text that does not parse, else a new tree;
\* ivar is the variable index of a one-variable expression, else -1;
\* addr tells one tree from another: the trees of a project are numbered in
\* creation order, NULL is 0 and a pointer that was never set is -1
NullExpr == [st |-> "null", eq |-> "", ivar |-> 0, addr |-> 0]
WildExpr == [st |-> "wild", eq |-> "", ivar |-> 0, addr |-> -1]
IvarOf(equation) == IF equation = "x9" THEN 9 ELSE -1
mathexpr_create(M, equation) ==
    IF equation = "bad" THEN NullExpr
    ELSE [st |-> "ok", eq |-> equation, ivar |-> IvarOf(equation),
          addr |-> M.Trees + 1]

UnitsName(units) ==
    CASE units = "MG" -> "MG"
      [] units = "UG" -> "UG"
      [] units = "MOLE" -> "MOLE"
      [] units = "MMOLE" -> "MMOLE"
      [] OTHER -> "?"

\* reallocation of the per-object species vectors in MSXaddSpecies when the
\* new species is not the first: realloc of every vector, then zero fill
SpeciesVecsUB(M) ==
    \/ \E i \in 1..Len(M.Node) : BadPtr(M.Node[i].c) \/ BadPtr(M.Node[i].c0)
    \/ \E i \in 1..Len(M.Tank) : BadPtr(M.Tank[i].c) \/ BadPtr(M.Tank[i].reacted)
    \/ \E i \in 1..Len(M.Link) : BadPtr(M.Link[i].c0) \/ BadPtr(M.Link[i].reacted)

\* "Allocate space in Node, Link, and Tank objects" for ns species: calloc
\* when ns = 1, realloc and zero fill otherwise; both leave all slots 0
AllocSpeciesVecs(M, ns) ==
    [M EXCEPT
       !.Node = [i \in 1..Len(@) |->
                   [@[i] EXCEPT !.c = Calloc(ns), !.c0 = Calloc(ns)]],
       !.Tank = [i \in 1..Len(@) |->
                   [@[i] EXCEPT !.c = Calloc(ns), !.reacted = Calloc(ns)]],
       !.Link = [i \in 1..Len(@) |->
                   [@[i] EXCEPT !.c0 = Calloc(ns), !.reacted = Calloc(ns)]]]

MSXaddSpecies(M, T, id, type, units, aTol, rTol) ==
    IF ~(type = BULK \/ type = WALL) THEN Ret(ERR_KEYWORD, M, T)
    ELSE IF Closed(M) THEN Ret(ERR_MSX_NOT_OPENED, M, T)
    ELSE Tab(T,
      IF findObject(T, SPECIES, id) >= 1 THEN Ret(ERR_INVALID_OBJECT_PARAMS, M, T)
    ELSE IF checkID(T, id) # NOERR THEN Ret(checkID(T, id), M, T)
    ELSE
      LET T1 == addObject(T, SPECIES, id, M.Nobjects[SPECIES] + 1).H
          nSpecies == M.Nobjects[SPECIES] + 1
          \* Species and C0 are (re)allocated before the units are checked
          M1 == [M EXCEPT !.C0 = IF nSpecies = 1 THEN Calloc(nSpecies)
                                 ELSE ReallocZero(@, nSpecies)]
          \* the slot as the units switch leaves it on ERR_KEYWORD: id and
          \* type assigned, the rest zero (calloc) or never set (realloc)
          sp0 == [id |-> id, type |-> type, units |-> "",
                  aTol |-> 0, rTol |-> 0,
                  pipeExpr |-> NullExpr, tankExpr |-> NullExpr,
                  pipeExprType |-> NO_EXPR, tankExprType |-> NO_EXPR,
                  precision |-> 0, rpt |-> 0, set |-> (nSpecies = 1)]
          sp == [sp0 EXCEPT !.units = UnitsName(units),
                            !.aTol = aTol, !.rTol = rTol,
                            !.precision = 2, !.set = TRUE]
          M2 == [M1 EXCEPT !.Species = Grow(@, nSpecies, sp),
                           !.Nobjects[SPECIES] = @ + 1]
      IN  IF UnitsName(units) = "?"
          THEN Ret(ERR_KEYWORD, [M1 EXCEPT !.Species = Grow(@, nSpecies, sp0)], T1)
          ELSE IF nSpecies > 1 /\ SpeciesVecsUB(M2)
               THEN RetUB(NOERR, AllocSpeciesVecs(M2, nSpecies), T1)
               ELSE Ret(NOERR, AllocSpeciesVecs(M2, nSpecies), T1))

ParamVecsUB(M) ==
    \/ \E i \in 1..Len(M.Tank) : BadPtr(M.Tank[i].param)
    \/ \E i \in 1..Len(M.Link) : BadPtr(M.Link[i].param)

AllocParamVecs(M, np) ==
    [M EXCEPT
       !.Tank = [i \in 1..Len(@) |-> [@[i] EXCEPT !.param = Calloc(np)]],
       !.Link = [i \in 1..Len(@) |-> [@[i] EXCEPT !.param = Calloc(np)]]]

MSXaddCoefficeint(M, T, type, id, value) ==
    IF Closed(M) THEN Ret(ERR_MSX_NOT_OPENED, M, T)
    ELSE IF type = PARAMETER THEN Tab(T,
      IF findObject(T, PATTERN, id) >= 1 THEN Ret(ERR_INVALID_OBJECT_PARAMS, M, T)
      ELSE IF checkID(T, id) # NOERR THEN Ret(checkID(T, id), M, T)
      ELSE
        LET T1 == addObject(T, PARAMETER, id, M.Nobjects[PARAMETER] + 1).H
            nParams == M.Nobjects[PARAMETER] + 1
            M1 == [M EXCEPT
                     !.Param = Grow(@, nParams, [id |-> id, value |-> value]),
                     !.Nobjects[PARAMETER] = @ + 1]
        IN  IF nParams > 1 /\ ParamVecsUB(M1)
            THEN RetUB(NOERR, AllocParamVecs(M1, nParams), T1)
            ELSE Ret(NOERR, AllocParamVecs(M1, nParams), T1))
    ELSE IF type = MSX_CONSTANT THEN Tab(T,
      IF findObject(T, MSX_CONSTANT, id) >= 1 THEN Ret(ERR_INVALID_OBJECT_PARAMS, M, T)
      ELSE IF checkID(T, id) # NOERR THEN Ret(checkID(T, id), M, T)
      ELSE
        LET T1 == addObject(T, MSX_CONSTANT, id, M.Nobjects[MSX_CONSTANT] + 1).H
            nConsts == M.Nobjects[MSX_CONSTANT] + 1
        IN  Ret(NOERR,
                [M EXCEPT
                   !.Const = Grow(@, nConsts, [id |-> id, value |-> value]),
                   !.Nobjects[MSX_CONSTANT] = @ + 1],
                T1))
    ELSE Ret(ERR_KEYWORD, M, T)

\* the loop "Updates the ivar values" over the terms before the new one
BumpIvar(M, t) ==
    IF t.expr.ivar # -1 /\ t.expr.ivar > M.Nobjects[SPECIES] + 1
    THEN [t EXCEPT !.expr.ivar = @ + 1]
    ELSE t

MSXaddTerm(M, T, id, equation) ==
    IF Closed(M) THEN Ret(ERR_MSX_NOT_OPENED, M, T)
    ELSE Tab(T,
      IF findObject(T, TERM, id) >= 1 THEN Ret(ERR_INVALID_OBJECT_PARAMS, M, T)
    ELSE IF checkID(T, id) # NOERR THEN Ret(checkID(T, id), M, T)
    ELSE
      LET T1 == addObject(T, TERM, id, M.Nobjects[TERM] + 1).H
          nTerms == M.Nobjects[TERM] + 1
          slot == [id |-> id, equation |-> "",
                   expr |-> IF nTerms = 1 THEN NullExpr ELSE WildExpr]
          \* the id is stored and the count incremented before parsing
          M1 == [M EXCEPT !.Term = Grow(@, nTerms, slot),
                          !.Nobjects[TERM] = @ + 1]
          expr == mathexpr_create(M, equation)
          M2 == [M1 EXCEPT
                   !.Trees = @ + 1,
                   !.Term = [m \in 1..Len(@) |->
                        IF m = nTerms
                        THEN [@[m] EXCEPT !.expr = expr, !.equation = equation]
                        ELSE BumpIvar(M1, @[m])]]
      IN  IF expr.st = "null" THEN Ret(ERR_MATH_EXPR, M1, T1)
          ELSE IF \E m \in 1..(nTerms - 1) : M1.Term[m].expr.st # "ok"
               THEN RetUB(NOERR, M2, T1)
               ELSE Ret(NOERR, M2, T1))

\* MSXaddpattern guards on ProjectOpened alone and does not call checkID
MSXaddpattern(M, T, id) ==
    IF ~M.ProjectOpened THEN Ret(ERR_MSX_NOT_OPENED, M, T)
    ELSE Tab(T,
      IF findObject(T, PATTERN, id) >= 1 THEN Ret(ERR_INVALID_OBJECT_PARAMS, M, T)
    ELSE
      LET n == M.Nobjects[PATTERN] + 1
          \* tmpPat: id, length, first and current are copied, interval is not
          old == [i \in 1..M.Nobjects[PATTERN] |->
                    [M.Pattern[i] EXCEPT !.interval = 0]]
          T1 == addObject(T, PATTERN, id, n).H
          new == [id |-> id, length |-> 0, first |-> <<>>, current |-> 0,
                  interval |-> 0]
      IN  Ret(NOERR,
              [M EXCEPT !.Pattern = Append(old, new),
                        !.Nobjects[PATTERN] = @ + 1],
              T1))

----------------------------------------------------------------------------
(* Options, expressions, sources, initial quality, parameter overrides:    *)
(* coretoolkit.c                                                           *)

UBIf(cond, R) == IF cond THEN [R EXCEPT !.ub = TRUE] ELSE R

\* a write (or read) of vec[m]: defined for an allocated vector and a slot
\* 0..n of it
VecOK(vec, m) == vec.st = "ok" /\ m >= 0 /\ m <= Len(vec.v)
VecSet(vec, m, value) ==
    IF VecOK(vec, m) /\ m >= 1 THEN [vec EXCEPT !.v[m] = value] ELSE vec

\* keyword tables of the option parser
AreaUnitsWords == {"FT2", "M2", "CM2"}
TimeUnitsWords == {"SEC", "MIN", "HR", "DAY"}
SolverTypeWords == {"EUL", "RK5", "ROS2"}
CouplingWords == {"NONE", "FULL"}
CompilerWords == {"NONE", "VC", "GC"}
ReportWords == {"NODE", "LINK", "SPECIES", "FILE", "PAGESIZE"}

\* MSXutils_findmatch: the keyword matched, or "" (k < 0)
MSXutils_findmatch(value, Words) == IF value \in Words THEN value ELSE ""

\* numeric strings the callers use; atoi of any other string is 0
IsNumber(value) == value \in {"60", "0"}
atoi(value) == IF value = "60" THEN 60 ELSE 0

MSXaddOption(M, T, optionType, value) ==
    IF Closed(M) THEN Ret(ERR_MSX_NOT_OPENED, M, T)
    ELSE CASE optionType = "AREA_UNITS_OPTION" ->
                IF MSXutils_findmatch(value, AreaUnitsWords) = ""
                THEN Ret(ERR_KEYWORD, M, T)
                ELSE Ret(NOERR, [M EXCEPT !.AreaUnits = value], T)
           [] optionType = "RATE_UNITS_OPTION" ->
                IF MSXutils_findmatch(value, TimeUnitsWords) = ""
                THEN Ret(ERR_KEYWORD, M, T)
                ELSE Ret(NOERR, [M EXCEPT !.RateUnits = value], T)
           [] optionType = "SOLVER_OPTION" ->
                IF MSXutils_findmatch(value, SolverTypeWords) = ""
                THEN Ret(ERR_KEYWORD, M, T)
                ELSE Ret(NOERR, [M EXCEPT !.Solver = value], T)
           [] optionType = "COUPLING_OPTION" ->
                IF MSXutils_findmatch(value, CouplingWords) = ""
                THEN Ret(ERR_KEYWORD, M, T)
                ELSE Ret(NOERR, [M EXCEPT !.Coupling = value], T)
           [] optionType = "TIMESTEP_OPTION" ->
                IF atoi(value) <= 0 THEN Ret(ERR_NUMBER, M, T)
                ELSE Ret(NOERR, [M EXCEPT !.Qstep = atoi(value)], T)
           [] optionType = "RTOL_OPTION" ->
                IF ~IsNumber(value) THEN Ret(ERR_NUMBER, M, T)
                ELSE Ret(NOERR, [M EXCEPT !.DefRtol = 1000 * atoi(value)], T)
           [] optionType = "ATOL_OPTION" ->
                IF ~IsNumber(value) THEN Ret(ERR_NUMBER, M, T)
                ELSE Ret(NOERR, [M EXCEPT !.DefAtol = 1000 * atoi(value)], T)
           [] optionType = "COMPILER_OPTION" ->
                \* no break after the assignment: control falls into default
                IF MSXutils_findmatch(value, CompilerWords) = ""
                THEN Ret(ERR_KEYWORD, M, T)
                ELSE Ret(ERR_INVALID_OBJECT_TYPE, [M EXCEPT !.Compiler = value], T)
           [] OTHER -> Ret(ERR_INVALID_OBJECT_TYPE, M, T)

MSXaddExpression(M, T, classType, expressionType, species, equation) ==
    IF Closed(M) THEN Ret(ERR_MSX_NOT_OPENED, M, T)
    ELSE IF expressionType < 0 \/ expressionType > 3 THEN Ret(ERR_KEYWORD, M, T)
    ELSE Tab(T,
      LET i == findObject(T, SPECIES, species)
          expr == mathexpr_create(M, equation)
      IN  IF i < 1 THEN Ret(ERR_NAME, M, T)
          ELSE IF i > Len(M.Species) THEN RetUB(NOERR, M, T)
          ELSE UBIf(~M.Species[i].set,
            IF classType = LINK /\ M.Species[i].pipeExprType # NO_EXPR
              THEN Ret(ERR_DUP_EXPR, M, T)
            ELSE IF classType = TANK /\ M.Species[i].tankExprType # NO_EXPR
              THEN Ret(ERR_DUP_EXPR, M, T)
            ELSE IF classType \notin {LINK, TANK}
              THEN Ret(ERR_INVALID_OBJECT_PARAMS, M, T)
            ELSE IF expr.st = "null" THEN Ret(ERR_MATH_EXPR, M, T)
            ELSE IF classType = LINK
              THEN Ret(NOERR, [M EXCEPT !.Trees = @ + 1,
                                        !.Species[i].pipeExpr = expr,
                                        !.Species[i].pipeExprType = expressionType], T)
            ELSE Ret(NOERR, [M EXCEPT !.Trees = @ + 1,
                                      !.Species[i].tankExpr = expr,
                                      !.Species[i].tankExprType = expressionType], T)))

\* (char)x where plain char is a signed 8-bit type
ToChar(x) == ((x + 128) % 256) - 128

\* the node's source list when a new source is linked in at the head
\* without a search for one of the species
PutSource_Prepend(sources, m, src) == <<src>> \o sources

\* the node's source list after the source of species m has been found or
\* a new one linked in at the head, and its fields assigned
PutSource(sources, m, src) ==
    IF \E k \in 1..Len(sources) : sources[k].species = m
    THEN LET k == CHOOSE k \in 1..Len(sources) :
                     /\ sources[k].species = m
                     /\ \A h \in 1..(k - 1) : sources[h].species # m
         IN  [sources EXCEPT ![k] = src]
    ELSE <<src>> \o sources

MSXaddSource(M, T, sourceType, nodeId, speciesId, strength, timePattern) ==
    IF Closed(M) THEN Ret(ERR_MSX_NOT_OPENED, M, T)
    ELSE IF sourceType < 0 \/ sourceType > 3 THEN Ret(ERR_KEYWORD, M, T)
    ELSE Tab(T,
      LET j == findObject(T, NODE, nodeId)
          m == findObject(T, SPECIES, speciesId)
          src == [type |-> ToChar(sourceType), species |-> m, c0 |-> strength,
                  pat |-> findObject(T, PATTERN, timePattern)]
      IN  IF j <= 0 THEN Ret(ERR_NAME, M, T)
          ELSE IF m <= 0 THEN Ret(ERR_NAME, M, T)
          ELSE IF m > Len(M.Species) \/ j > Len(M.Node) THEN RetUB(NOERR, M, T)
          ELSE IF M.Species[m].type # BULK THEN Ret(NOERR, M, T)
          ELSE Ret(NOERR,
                   [M EXCEPT !.Node[j].sources = PutSource(@, m, src)], T))

MSXaddQuality(M, T, type, speciesId, value, id) ==
    IF Closed(M) THEN Ret(ERR_MSX_NOT_OPENED, M, T)
    ELSE IF type \notin {"GLOBAL", "NODE", "LINK"} THEN Ret(ERR_KEYWORD, M, T)
    ELSE Tab(T,
      LET m == findObject(T, SPECIES, speciesId)
          bulk == M.Species[m].type = BULK
      IN  IF m <= 0 THEN Ret(ERR_NAME, M, T)
          ELSE IF m > Len(M.Species) THEN RetUB(NOERR, M, T)
          ELSE IF type = "GLOBAL" THEN
            UBIf(\/ ~VecOK(M.C0, m)
                 \/ bulk /\ \E j \in 1..M.Nobjects[NODE] : ~VecOK(M.Node[j].c0, m)
                 \/ \E j \in 1..M.Nobjects[LINK] : ~VecOK(M.Link[j].c0, m),
              Ret(NOERR,
                  [M EXCEPT
                     !.C0 = VecSet(@, m, value),
                     !.Node = [j \in 1..Len(@) |->
                         IF bulk /\ j <= M.Nobjects[NODE]
                         THEN [@[j] EXCEPT !.c0 = VecSet(@, m, value)] ELSE @[j]],
                     !.Link = [j \in 1..Len(@) |->
                         IF j <= M.Nobjects[LINK]
                         THEN [@[j] EXCEPT !.c0 = VecSet(@, m, value)] ELSE @[j]]],
                  T))
          ELSE IF type = "NODE" THEN
            LET j == findObject(T, NODE, id)
            IN  IF j <= 0 THEN Ret(ERR_NAME, M, T)
                ELSE IF ~bulk THEN Ret(NOERR, M, T)
                ELSE IF j > Len(M.Node) THEN RetUB(NOERR, M, T)
                ELSE UBIf(~VecOK(M.Node[j].c0, m),
                       Ret(NOERR, [M EXCEPT !.Node[j].c0 = VecSet(@, m, value)], T))
          ELSE
            LET j == findObject(T, LINK, id)
            IN  IF j <= 0 THEN Ret(ERR_NAME, M, T)
                ELSE IF j > Len(M.Link) THEN RetUB(NOERR, M, T)
                ELSE UBIf(~VecOK(M.Link[j].c0, m),
                       Ret(NOERR, [M EXCEPT !.Link[j].c0 = VecSet(@, m, value)], T)))

\* the parameter index i is used as found, -1 included
MSXaddParameter(M, T, type, paramId, value, id) ==
    IF Closed(M) THEN Ret(ERR_MSX_NOT_OPENED, M, T)
    ELSE Tab(T,
      LET i == findObject(T, PARAMETER, paramId)
      IN  IF type = "PIPE" THEN
            LET j == findObject(T, LINK, id)
            IN  IF j <= 0 THEN Ret(ERR_NAME, M, T)
                ELSE IF j > Len(M.Link) THEN RetUB(NOERR, M, T)
                ELSE UBIf(~VecOK(M.Link[j].param, i),
                       Ret(NOERR, [M EXCEPT !.Link[j].param = VecSet(@, i, value)], T))
          ELSE IF type = "TANK" THEN
            \* the tank index found is used as a node index
            LET j == findObject(T, TANK, id)
                k == M.Node[j].tank
            IN  IF j <= 0 THEN Ret(ERR_NAME, M, T)
                ELSE IF j > Len(M.Node) THEN RetUB(NOERR, M, T)
                ELSE IF k <= 0 THEN Ret(NOERR, M, T)
                ELSE IF k > Len(M.Tank) THEN RetUB(NOERR, M, T)
                ELSE UBIf(~VecOK(M.Tank[k].param, i),
                       Ret(NOERR, [M EXCEPT !.Tank[k].param = VecSet(@, i, value)], T))
          ELSE Ret(ERR_KEYWORD, M, T))

----------------------------------------------------------------------------
(* Reporting, hydraulics and the index-based setters: coretoolkit.c *)

MSXsetReport(M, T, reportType, id, precision) ==
    IF Closed(M) THEN Ret(ERR_MSX_NOT_OPENED, M, T)
    ELSE IF MSXutils_findmatch(reportType, ReportWords) = "" THEN Ret(ERR_KEYWORD, M, T)
    ELSE IF reportType = "NODE" THEN Tab(T,
      LET j == findObject(T, NODE, id)
      IN  IF j <= 0 THEN Ret(ERR_NAME, M, T)
          ELSE IF j > Len(M.Node) THEN RetUB(NOERR, M, T)
          ELSE Ret(NOERR, [M EXCEPT !.Node[j].rpt = 1], T))
    ELSE IF reportType = "LINK" THEN Tab(T,
      LET j == findObject(T, LINK, id)
      IN  IF j <= 0 THEN Ret(ERR_NAME, M, T)
          ELSE IF j > Len(M.Link) THEN RetUB(NOERR, M, T)
          ELSE Ret(NOERR, [M EXCEPT !.Link[j].rpt = 1], T))
    ELSE IF reportType = "SPECIES" THEN Tab(T,
      LET j == findObject(T, SPECIES, id)
      IN  IF j <= 0 THEN Ret(ERR_NAME, M, T)
          ELSE IF j > Len(M.Species) THEN RetUB(NOERR, M, T)
          ELSE Ret(NOERR, [M EXCEPT !.Species[j].rpt = 1,
                                    !.Species[j].precision = precision], T))
    ELSE IF reportType = "FILE" THEN Ret(NOERR, [M EXCEPT !.RptName = id], T)
    ELSE IF ~IsNumber(id) THEN Ret(ERR_NUMBER, M, T)
    ELSE Ret(NOERR, [M EXCEPT !.PageSize = atoi(id)], T)

\* demands, heads: one value per node; flows: one value per link
MSXsetHydraulics(M, T, demands, heads, flows) ==
    IF Closed(M) THEN Ret(ERR_MSX_NOT_OPENED, M, T)
    ELSE
      LET nNodes == M.Nobjects[NODE]
          nLinks == M.Nobjects[LINK]
          Fill(vec, n, x) == IF vec.st = "ok"
                             THEN [vec EXCEPT !.v = [i \in 1..Len(@) |->
                                                       IF i <= n THEN x ELSE @[i]]]
                             ELSE vec
      IN  UBIf(\/ nNodes > 0 /\ (~VecOK(M.D, nNodes) \/ ~VecOK(M.H, nNodes))
               \/ nLinks > 0 /\ ~VecOK(M.Q, nLinks),
            Ret(NOERR,
                [M EXCEPT !.D = Fill(@, nNodes, demands),
                          !.H = Fill(@, nNodes, heads),
                          !.Q = Fill(@, nLinks, flows)],
                T))

MSXsetconstant(M, T, index, value) ==
    IF ~M.ProjectOpened THEN Ret(ERR_MSX_NOT_OPENED, M, T)
    ELSE IF index < 1 \/ index > M.Nobjects[MSX_CONSTANT]
         THEN Ret(ERR_INVALID_OBJECT_INDEX, M, T)
    ELSE IF index > Len(M.Const) THEN RetUB(NOERR, M, T)
    ELSE Ret(NOERR, [M EXCEPT !.Const[index].value = value], T)

MSXsetparameter(M, T, type, index, param, value) ==
    IF ~M.ProjectOpened THEN Ret(ERR_MSX_NOT_OPENED, M, T)
    ELSE IF param < 1 \/ param > M.Nobjects[PARAMETER]
         THEN Ret(ERR_INVALID_OBJECT_INDEX, M, T)
    ELSE IF type = NODE THEN
      IF index < 1 \/ index > M.Nobjects[NODE] THEN Ret(ERR_INVALID_OBJECT_INDEX, M, T)
      ELSE IF index > Len(M.Node) THEN RetUB(NOERR, M, T)
      ELSE LET j == M.Node[index].tank
           IN  IF j <= 0 THEN Ret(NOERR, M, T)
               ELSE IF j > Len(M.Tank) THEN RetUB(NOERR, M, T)
               ELSE UBIf(~VecOK(M.Tank[j].param, param),
                      Ret(NOERR, [M EXCEPT !.Tank[j].param = VecSet(@, param, value)], T))
    ELSE IF type = LINK THEN
      IF index < 1 \/ index > M.Nobjects[LINK] THEN Ret(ERR_INVALID_OBJECT_INDEX, M, T)
      ELSE IF index > Len(M.Link) THEN RetUB(NOERR, M, T)
      ELSE UBIf(~VecOK(M.Link[index].param, param),
             Ret(NOERR, [M EXCEPT !.Link[index].param = VecSet(@, param, value)], T))
    ELSE Ret(ERR_INVALID_OBJECT_TYPE, M, T)

MSXsetinitqual(M, T, type, index, species, value) ==
    IF ~M.ProjectOpened THEN Ret(ERR_MSX_NOT_OPENED, M, T)
    ELSE IF species < 1 \/ species > M.Nobjects[SPECIES]
         THEN Ret(ERR_INVALID_OBJECT_INDEX, M, T)
    ELSE IF type = NODE THEN
      IF index < 1 \/ index > M.Nobjects[NODE] THEN Ret(ERR_INVALID_OBJECT_INDEX, M, T)
      ELSE IF index > Len(M.Node) \/ species > Len(M.Species) THEN RetUB(NOERR, M, T)
      ELSE IF M.Species[species].type # BULK THEN Ret(NOERR, M, T)
      ELSE UBIf(~VecOK(M.Node[index].c0, species),
             Ret(NOERR, [M EXCEPT !.Node[index].c0 = VecSet(@, species, value)], T))
    ELSE IF type = LINK THEN
      IF index < 1 \/ index > M.Nobjects[LINK] THEN Ret(ERR_INVALID_OBJECT_INDEX, M, T)
      ELSE IF index > Len(M.Link) THEN RetUB(NOERR, M, T)
      ELSE UBIf(~VecOK(M.Link[index].c0, species),
             Ret(NOERR, [M EXCEPT !.Link[index].c0 = VecSet(@, species, value)], T))
    ELSE Ret(ERR_INVALID_OBJECT_TYPE, M, T)

MSX_NOSOURCE == -1
MSX_FLOWPACED == 3

\* MSXsetsource without `if ( pat < 0 ) pat = 0`
MSXsetsource_NoClamp(M, T, node, species, type, level, pat) ==
    IF ~M.ProjectOpened THEN Ret(ERR_MSX_NOT_OPENED, M, T)
    ELSE IF node < 1 \/ node > M.Nobjects[NODE] THEN Ret(ERR_INVALID_OBJECT_INDEX, M, T)
    ELSE IF species < 1 \/ species > M.Nobjects[SPECIES]
         THEN Ret(ERR_INVALID_OBJECT_INDEX, M, T)
    ELSE IF pat > M.Nobjects[PATTERN] THEN Ret(ERR_INVALID_OBJECT_INDEX, M, T)
    ELSE IF type < MSX_NOSOURCE \/ type > MSX_FLOWPACED
         THEN Ret(ERR_INVALID_OBJECT_PARAMS, M, T)
    ELSE IF node > Len(M.Node) \/ species > Len(M.Species) THEN RetUB(NOERR, M, T)
    ELSE IF M.Species[species].type # BULK THEN Ret(ERR_INVALID_OBJECT_PARAMS, M, T)
    ELSE IF level < 0 THEN Ret(ERR_INVALID_OBJECT_PARAMS, M, T)
    ELSE
      LET src == [type |-> ToChar(type), species |-> species, c0 |-> level, pat |-> pat]
      IN  Ret(NOERR, [M EXCEPT !.Node[node].sources = PutSource(@, species, src)], T)

MSXsetsource(M, T, node, species, type, level, pat) ==
    IF ~M.ProjectOpened THEN Ret(ERR_MSX_NOT_OPENED, M, T)
    ELSE IF node < 1 \/ node > M.Nobjects[NODE] THEN Ret(ERR_INVALID_OBJECT_INDEX, M, T)
    ELSE IF species < 1 \/ species > M.Nobjects[SPECIES]
         THEN Ret(ERR_INVALID_OBJECT_INDEX, M, T)
    ELSE IF pat > M.Nobjects[PATTERN] THEN Ret(ERR_INVALID_OBJECT_INDEX, M, T)
    ELSE IF type < MSX_NOSOURCE \/ type > MSX_FLOWPACED
         THEN Ret(ERR_INVALID_OBJECT_PARAMS, M, T)
    ELSE IF node > Len(M.Node) \/ species > Len(M.Species) THEN RetUB(NOERR, M, T)
    ELSE IF M.Species[species].type # BULK THEN Ret(ERR_INVALID_OBJECT_PARAMS, M, T)
    ELSE IF level < 0 THEN Ret(ERR_INVALID_OBJECT_PARAMS, M, T)
    ELSE
      LET src == [type |-> ToChar(type), species |-> species, c0 |-> level,
                  pat |-> IF pat < 0 THEN 0 ELSE pat]
      IN  Ret(NOERR, [M EXCEPT !.Node[node].sources = PutSource(@, species, src)], T)

----------------------------------------------------------------------------
(* Time patterns: coretoolkit.c.  A pattern's multiplier list `first` is   *)
(* the sequence of its values; `current` is the position of the list node  *)
(* the cursor points to (0 = NULL).                                        *)

ValidPat(M, pat) == pat >= 1 /\ pat <= M.Nobjects[PATTERN]

\* everything of MSXsetpattern but the deletion of the current multipliers
MSXsetpattern_NoDelete(M, T, pat, mult, len) ==
    IF ~M.ProjectOpened THEN Ret(ERR_MSX_NOT_OPENED, M, T)
    ELSE IF ~ValidPat(M, pat) THEN Ret(ERR_INVALID_OBJECT_INDEX, M, T)
    ELSE
      LET n == IF len < 0 THEN 0 ELSE len
          all == M.Pattern[pat].first \o SubSeq(mult, 1, n)
      IN  Ret(NOERR,
              [M EXCEPT !.Pattern[pat] =
                   [@ EXCEPT !.first = all, !.length = n, !.interval = 0,
                             !.current = IF all = <<>> THEN 0 ELSE 1]],
              T)

MSXsetpattern(M, T, pat, mult, len) ==
    IF ~M.ProjectOpened THEN Ret(ERR_MSX_NOT_OPENED, M, T)
    ELSE IF ~ValidPat(M, pat) THEN Ret(ERR_INVALID_OBJECT_INDEX, M, T)
    ELSE
      LET n == IF len < 0 THEN 0 ELSE len
      IN  Ret(NOERR,
              [M EXCEPT !.Pattern[pat] =
                   [@ EXCEPT !.first = SubSeq(mult, 1, n), !.length = n,
                             !.interval = 0,
                             !.current = IF n = 0 THEN 0 ELSE 1]],
              T)

\* position the cursor reaches walking the list from `first` for `period`:
\* the node found, or NULL (0) after the last node
WalkTo(P, period) ==
    IF period >= 1 /\ period <= Len(P.first) THEN period ELSE 0

\* MSXsetpatternvalue assigning at the head of the list instead of walking
\* to the period
MSXsetpatternvalue_Head(M, T, pat, period, value) ==
    IF ~M.ProjectOpened THEN Ret(ERR_MSX_NOT_OPENED, M, T)
    ELSE IF ~ValidPat(M, pat) THEN Ret(ERR_INVALID_OBJECT_INDEX, M, T)
    ELSE IF period <= 0 \/ period > M.Pattern[pat].length
         THEN Ret(ERR_INVALID_OBJECT_PARAMS, M, T)
    ELSE Ret(NOERR,
             [M EXCEPT !.Pattern[pat] =
                  [@ EXCEPT !.current = 1, !.first = [@ EXCEPT ![1] = value]]],
             T)

MSXsetpatternvalue(M, T, pat, period, value) ==
    IF ~M.ProjectOpened THEN Ret(ERR_MSX_NOT_OPENED, M, T)
    ELSE IF ~ValidPat(M, pat) THEN Ret(ERR_INVALID_OBJECT_INDEX, M, T)
    ELSE IF period <= 0 \/ period > M.Pattern[pat].length
         THEN Ret(ERR_INVALID_OBJECT_PARAMS, M, T)
    ELSE
      LET P == M.Pattern[pat]
          k == WalkTo(P, period)
      IN  Ret(NOERR,
              [M EXCEPT !.Pattern[pat] =
                   [@ EXCEPT !.current = k,
                             !.first = IF k = 0 THEN @
                                       ELSE [@ EXCEPT ![k] = value]]],
              T)

MSXgetpatternlen(M, T, pat) ==
    IF ~M.ProjectOpened THEN RetOut(ERR_MSX_NOT_OPENED, M, T, <<0>>)
    ELSE IF ~ValidPat(M, pat) THEN RetOut(ERR_INVALID_OBJECT_INDEX, M, T, <<0>>)
    ELSE RetOut(NOERR, M, T, <<M.Pattern[pat].length>>)

MSXgetpatternvalue(M, T, pat, period) ==
    IF ~M.ProjectOpened THEN RetOut(ERR_MSX_NOT_OPENED, M, T, <<0>>)
    ELSE IF ~ValidPat(M, pat) THEN RetOut(ERR_INVALID_OBJECT_INDEX, M, T, <<0>>)
    ELSE IF period <= M.Pattern[pat].length THEN
      LET P == M.Pattern[pat]
          k == WalkTo(P, period)
      IN  RetOut(NOERR, [M EXCEPT !.Pattern[pat].current = k], T,
                 IF k = 0 THEN <<0>> ELSE <<P.first[k]>>)
    ELSE RetOut(NOERR, M, T, <<0>>)

----------------------------------------------------------------------------
(* Initialisation and stepping: coretoolkit.c, msxproj.c *)

\* Ucf[] as convertUnits sets it (MperFT = 0.3048, M3perFT3 = 0.028317)
UcfOf(M) ==
    IF M.Unitsflag = US
    THEN [LENGTH_UNITS |-> Frac(1), DIAM_UNITS |-> Frac(12), VOL_UNITS |-> Frac(1)]
    ELSE [LENGTH_UNITS |-> Quot(3048, 10000), DIAM_UNITS |-> Quot(3048, 10),
          VOL_UNITS |-> Quot(28317, 1000000)]

convertUnits(M) ==
    LET Ucf == UcfOf(M)
    IN  [M EXCEPT
           !.Link = [i \in 1..Len(@) |->
               IF i <= M.Nobjects[LINK]
               THEN [@[i] EXCEPT !.diam = FracDiv(@, Ucf.DIAM_UNITS),
                                 !.len = FracDiv(@, Ucf.LENGTH_UNITS)]
               ELSE @[i]],
           !.Tank = [i \in 1..Len(@) |->
               IF i <= M.Nobjects[TANK]
               THEN [@[i] EXCEPT !.v0 = FracDiv(@, Ucf.VOL_UNITS),
                                 !.vMix = FracDiv(@, Ucf.VOL_UNITS)]
               ELSE @[i]],
           !.Species = [m \in 1..Len(@) |->
               IF m <= M.Nobjects[SPECIES]
               THEN [@[m] EXCEPT !.rTol = IF @ = 0 THEN M.DefRtol ELSE @,
                                 !.aTol = IF @ = 0 THEN M.DefAtol ELSE @]
               ELSE @[m]]]

\* the adjacency lists after links 1..k have been entered
RECURSIVE AdjAfter(_, _)
AdjAfter(M, k) ==
    IF k = 0 THEN [i \in 1..M.Nobjects[NODE] |-> <<>>]
    ELSE LET A == AdjAfter(M, k - 1)
             i == M.Link[k].n1
             j == M.Link[k].n2
             A1 == [A EXCEPT ![i] = <<[node |-> j, link |-> k]>> \o @]
         IN  [A1 EXCEPT ![j] = <<[node |-> i, link |-> k]>> \o @]

\* freeadjlists: [M, ub]; every entry and the array are freed and the
\* project's pointer keeps its value
freeadjlists(M) ==
    CASE M.Adjlist.st = "null" -> [M |-> M, ub |-> FALSE]
      [] M.Adjlist.st = "ok" ->
           [M |-> [M EXCEPT !.Adjlist = [st |-> "freed", list |-> <<>>]], ub |-> FALSE]
      [] OTHER -> [M |-> M, ub |-> TRUE]

\* allocations a call of buildadjlists makes: the array, two entries a link
AdjAllocs(M) == 2 * M.Nobjects[LINK] + 1

\* buildadjlists: [ret, M, ub]; mem is the number of allocations the heap
\* grants before one fails
buildadjlists(M, mem) ==
    LET F == freeadjlists(M)
    IN  IF mem = 0
        THEN [ret |-> "101", M |-> [F.M EXCEPT !.Adjlist = AdjNull], ub |-> F.ub]
        ELSE IF Len(M.Link) < M.Nobjects[LINK]
        THEN [ret |-> NOERR, M |-> F.M, ub |-> TRUE]
        ELSE IF mem >= AdjAllocs(M)
        THEN [ret |-> NOERR,
              M |-> [F.M EXCEPT !.Adjlist =
                       [st |-> "ok", list |-> AdjAfter(M, M.Nobjects[LINK])]],
              ub |-> F.ub]
        \* an entry is not granted: the entries made so far and the array
        \* are freed by freeadjlists
        ELSE [ret |-> "101",
              M |-> [F.M EXCEPT !.Adjlist = [st |-> "freed", list |-> <<>>]],
              ub |-> F.ub]

\* createObjects (legacy): every array is calloc'ed to the counted size, so
\* every field of every element is zero.  The input files of this model
\* declare no tank and no species, term, parameter, constant or pattern.
createObjects(M) ==
    LET nS == M.Nobjects[SPECIES]
        nP == M.Nobjects[PARAMETER]
    IN  [M EXCEPT
           !.Node = [i \in 1..M.Nobjects[NODE] |->
                       [id |-> "", tank |-> 0, rpt |-> 0, sources |-> <<>>,
                        c |-> Calloc(nS), c0 |-> Calloc(nS)]],
           !.Link = [k \in 1..M.Nobjects[LINK] |->
                       [id |-> "", n1 |-> 0, n2 |-> 0, diam |-> Frac(0),
                        len |-> Frac(0), roughness |-> 0, rpt |-> 0,
                        param |-> Calloc(nP), c0 |-> Calloc(nS),
                        reacted |-> Calloc(nS)]],
           !.Tank = <<>>, !.Species = <<>>, !.Term = <<>>, !.Param = <<>>,
           !.Const = <<>>, !.Pattern = <<>>,
           !.D = Calloc(M.Nobjects[NODE]), !.H = Calloc(M.Nobjects[NODE]),
           !.Q = Calloc(M.Nobjects[LINK]), !.C0 = Calloc(nS)]

\* The input readers, by what they leave in the project.  f is the content
\* of the input files: [nodes, ends, rpt] = the number of nodes, the end
\* nodes of each link, and whether a report file is named.
MSXinp_countNetObjects(M, f) ==
    [M EXCEPT !.Nobjects[NODE] = f.nodes, !.Nobjects[LINK] = Len(f.ends)]

MSXinp_readNetData(M, f) ==
    [M EXCEPT !.Link = [k \in 1..Len(@) |->
                          [@[k] EXCEPT !.n1 = f.ends[k][1], !.n2 = f.ends[k][2],
                                       !.diam = Frac(12), !.len = Frac(100)]]]

MSXinp_readMsxData(M, f) ==
    IF f.rpt THEN [M EXCEPT !.RptName = "rpt"] ELSE M

\* the number of an error code
ErrNum(c) ==
    CASE c = NOERR -> 0
      [] c = "101" -> 101
      [] c = ERR_MEMORY -> 501
      [] c = ERR_OPEN_MSX_FILE -> 503
      [] c = ERR_READING_MSX_FILE -> 506
      [] c = ERR_OPEN_RPT_FILE -> 521

\* the stages of MSXproj_open that can return an error, and the code
\* returned by the one that fails
FailCode(stage) ==
    CASE stage = "createHashTables" -> ERR_MEMORY
      [] stage = "openRptFile" -> ERR_OPEN_RPT_FILE
      [] OTHER -> ERR_READING_MSX_FILE

\* result [ret, M, H] of a stage that runs; fail names the stage that fails
\* ("none": no stage); a stage that fails leaves the project as it was
StageRes(stage, M, T, f, fail) ==
    CASE stage = "openRptFile" ->
           LET R == openRptFile(M, T, fail # "openRptFile")
           IN  [ret |-> R.ret, M |-> R.M, H |-> R.H]
      [] stage = fail -> [ret |-> FailCode(stage), M |-> M, H |-> T]
      [] stage = "createHashTables" ->
           [ret |-> NOERR, M |-> M, H |-> createHashTables(T)]
      [] stage = "MSXinp_countNetObjects" ->
           [ret |-> NOERR, M |-> MSXinp_countNetObjects(M, f), H |-> T]
      [] stage = "createObjects" ->
           [ret |-> NOERR, M |-> createObjects(M), H |-> T]
      [] stage = "MSXinp_readNetData" ->
           [ret |-> NOERR, M |-> MSXinp_readNetData(M, f), H |-> T]
      [] stage = "MSXinp_readMsxData" ->
           [ret |-> NOERR, M |-> MSXinp_readMsxData(M, f), H |-> T]
      [] stage = "convertUnits" ->
           [ret |-> NOERR, M |-> convertUnits(M), H |-> T]
      [] OTHER -> [ret |-> NOERR, M |-> M, H |-> T]

\* CALL(err, f): err = (err > 100) ? err : f.  S is [err, M, H, ran]: the
\* code so far, the project, the tables, and the stages run with the code
\* each returned.  openRptFile is called only when a report file is named.
CALL(S, stage, f, fail) ==
    IF ErrNum(S.err) > 100 THEN S
    ELSE IF stage = "openRptFile" /\ S.M.RptName = "" THEN S
    ELSE LET R == StageRes(stage, S.M, S.H, f, fail)
         IN  [err |-> R.ret, M |-> R.M, H |-> R.H,
              ran |-> Append(S.ran, [stage |-> stage, code |-> R.ret])]

\* the CALL lines of MSXproj_open, in their order
OpenStages ==
    <<"createHashTables", "MSXinp_countMsxObjects", "MSXinp_countNetObjects",
      "createObjects", "MSXinp_readNetData", "MSXinp_readMsxData",
      "openRptFile", "convertUnits">>

\* the CALL lines from the i-th on, applied to S
RECURSIVE RunStages(_, _, _, _)
RunStages(S, i, f, fail) ==
    IF i > Len(OpenStages) THEN S
    ELSE CHOOSE r \in {RunStages(s, i + 1, f, fail) :
                          s \in {CALL(S, OpenStages[i], f, fail)}} : TRUE

\* MSXproj_open from the test of Adjlist to its return
OpenTail(S, mem) ==
    LET B == buildadjlists(S.M, mem)
        ran == Append(S.ran, [stage |-> "buildadjlists", code |-> B.ret])
    IN  IF S.M.Adjlist.st = "null"
        THEN IF B.ret # NOERR
             THEN UBIf(B.ub, RetOut(B.ret, B.M, S.H, ran))
             ELSE UBIf(B.ub,
                       RetOut(B.ret,
                              [B.M EXCEPT !.MsxFile = "NULL",
                                          !.ProjectOpened = TRUE],
                              S.H, ran))
        ELSE RetOut(S.err,
                    [S.M EXCEPT !.MsxFile = "NULL",
                                !.ProjectOpened =
                                   IF S.err = NOERR THEN TRUE ELSE @],
                    S.H, S.ran)

\* MSXproj_open (legacy).  fileOK: fopen of the input file succeeds; f: the
\* content of the input files; fail: the stage that returns an error;
\* mem: the allocations granted to buildadjlists
MSXproj_open(M, T, fileOK, f, fail, mem) ==
    LET M0 == setDefaults([M EXCEPT !.ProjectOpened = FALSE,
                                    !.QualityOpened = FALSE])
    IN  IF ~fileOK
        THEN RetOut(ERR_OPEN_MSX_FILE, [M0 EXCEPT !.MsxFile = "NULL"], T, <<>>)
        ELSE CHOOSE r \in
               {OpenTail(s, mem) :
                  s \in {RunStages([err |-> NOERR,
                                    M |-> [M0 EXCEPT !.MsxFile = "msx"],
                                    H |-> T, ran |-> <<>>], 1, f, fail)}} : TRUE

\* finishInit: the closing stage of project setup, as in MSXproj_open:
\* unit conversion, then the adjacency lists if there are none yet
finishInit(M) ==
    LET M1 == convertUnits(M)
    IN  IF M1.Adjlist.st = "null" THEN buildadjlists(M1, AdjAllocs(M1)).M ELSE M1

\* MSXqual_open: enters the QualityOpen phase
----------------------------------------------------------------------------
(* Water-quality transport: pipe segments and the node order of a sub-step *)

FracAdd(x, y) == Quot(x.n * y.d + y.n * x.d, x.d * y.d)
FracSub(x, y) == Quot(x.n * y.d - y.n * x.d, x.d * y.d)
FracMul(x, y) == Quot(x.n * y.n, x.d * y.d)
FracLeq(x, y) == x.n * y.d <= y.n * x.d
FracLess(x, y) == x.n * y.d < y.n * x.d
FracAbs(x) == IF x.n < 0 THEN [n |-> -x.n, d |-> x.d] ELSE x
FracMin(x, y) == IF FracLeq(x, y) THEN x ELSE y
FracMax(x, y) == IF FracLeq(x, y) THEN y ELSE x

\* the segment-phase volume of a pipe, pi (d/2)^2 length, in units of pi/4
PipeVolume(link) == FracMul(FracMul(link.diam, link.diam), link.len)

FracFloor(x) == x.n \div x.d

\* concentrations are held in thousandths; those that agree to within this
\* tolerance are merged
SegTol == 10
\* a segment is undersized below max(1e-8, V 1e-3)
MinSegVol(V) == FracMax(Quot(1, 100000000), FracMul(V, Quot(1, 1000)))

RECURSIVE SegVolume(_)
SegVolume(segs) ==
    IF segs = <<>> THEN Frac(0) ELSE FracAdd(segs[1].v, SegVolume(Tail(segs)))

\* qual_init: every pipe holds one segment of the pipe's volume at the
\* link's initial concentration; the deque runs from the downstream end
\* (head, position 1) to the upstream end (tail)
seedSegs(M) ==
    [k \in 1..Len(M.Link) |->
        [vol |-> PipeVolume(M.Link[k]), dir |-> 1,
         segs |-> <<[v |-> PipeVolume(M.Link[k]), c |-> 0]>>]]

Reverse(s) == [i \in 1..Len(s) |-> s[Len(s) + 1 - i]]

\* "when sign flips, the logical orientation of the deque is reversed"
reverseSegs(pipe, q) ==
    LET dir == IF q.n > 0 THEN 1 ELSE IF q.n < 0 THEN -1 ELSE pipe.dir
    IN  IF dir = pipe.dir THEN pipe
        ELSE [pipe EXCEPT !.dir = dir, !.segs = Reverse(@)]

\* the head segments without the volume V: a head of one segment is cut
\* as it is, with the partial cut left out
RECURSIVE ejectSegs_NoShrink(_, _)
ejectSegs_NoShrink(segs, V) ==
    IF segs = <<>> \/ V.n = 0 THEN segs
    ELSE IF FracLeq(segs[1].v, V)
         THEN ejectSegs_NoShrink(Tail(segs), FracSub(V, segs[1].v))
         ELSE segs

\* "Segments are ejected from the head of the deque in order": whole while
\* the segment's volume <= the remaining V, else the segment shrinks by it
RECURSIVE ejectSegs(_, _)
ejectSegs(segs, V) ==
    IF segs = <<>> \/ V.n = 0 THEN segs
    ELSE IF FracLeq(segs[1].v, V)
         THEN ejectSegs(Tail(segs), FracSub(V, segs[1].v))
         ELSE <<[segs[1] EXCEPT !.v = FracSub(@, V)]>> \o Tail(segs)

\* the mass the ejected volume carries to the downstream node
RECURSIVE ejectedMass(_, _)
ejectedMass(segs, V) ==
    IF segs = <<>> \/ V.n = 0 THEN Frac(0)
    ELSE IF FracLeq(segs[1].v, V)
         THEN FracAdd(FracMul(segs[1].v, Frac(segs[1].c)),
                      ejectedMass(Tail(segs), FracSub(V, segs[1].v)))
         ELSE FracMul(V, Frac(segs[1].c))

\* "A new tail segment is created (or the existing tail extended) with
\* volume equal to V and concentration equal to the inflow concentration"
addSeg(segs, V, c) ==
    IF segs # <<>> /\ segs[Len(segs)].c = c
    THEN [segs EXCEPT ![Len(segs)].v = FracAdd(@, V)]
    ELSE Append(segs, [v |-> V, c |-> c])

\* two adjacent segments as one: the volumes add, the mass is kept
JoinSegs(s1, s2) ==
    LET v == FracAdd(s1.v, s2.v)
        m == FracAdd(FracMul(s1.v, Frac(s1.c)), FracMul(s2.v, Frac(s2.c)))
    IN  [v |-> v, c |-> IF v.n = 0 THEN s1.c ELSE FracFloor(FracDiv(m, v))]

\* "Adjacent segments whose per-species concentrations all agree to within
\* species tolerance are merged into one"
RECURSIVE mergeEqual(_)
mergeEqual(segs) ==
    IF Len(segs) < 2 THEN segs
    ELSE IF segs[1].c - segs[2].c <= SegTol /\ segs[2].c - segs[1].c <= SegTol
         THEN mergeEqual(<<JoinSegs(segs[1], segs[2])>> \o Tail(Tail(segs)))
         ELSE <<segs[1]>> \o mergeEqual(Tail(segs))

\* "segments smaller than max(1e-8, V 1e-3) are merged into their neighbor"
RECURSIVE mergeSmall(_, _)
mergeSmall(segs, V) ==
    IF Len(segs) < 2 THEN segs
    ELSE IF FracLess(segs[1].v, MinSegVol(V)) \/ (Len(segs) = 2 /\ FracLess(segs[2].v, MinSegVol(V)))
         THEN mergeSmall(<<JoinSegs(segs[1], segs[2])>> \o Tail(Tail(segs)), V)
         ELSE <<segs[1]>> \o mergeSmall(Tail(segs), V)

\* the links that carry flow into / out of node n under the flows q
UpNode(M, k, q) == IF q[k].n > 0 THEN M.Link[k].n1 ELSE M.Link[k].n2
DownNode(M, k, q) == IF q[k].n > 0 THEN M.Link[k].n2 ELSE M.Link[k].n1
Inflows(M, q, n) == {k \in DOMAIN q : q[k].n # 0 /\ DownNode(M, k, q) = n}
Outflows(M, q, n) == {k \in DOMAIN q : q[k].n # 0 /\ UpNode(M, k, q) = n}

SetMin(S) == CHOOSE x \in S : \A y \in S : x <= y
RECURSIVE SortedSeq(_)
SortedSeq(S) == IF S = {} THEN <<>> ELSE <<SetMin(S)>> \o SortedSeq(S \ {SetMin(S)})
SeqRange(s) == {s[i] : i \in 1..Len(s)}

\* the nodes in index order, whatever the flows are
sortNodes_ByIndex(M, q, order) == SortedSeq(1..M.Nobjects[NODE])

\* "a topological order of nodes by flow: a node is ready when all incoming
\* links have been processed. Cycles (e.g., tanks) are broken by iterating
\* in the order defined by the adjacency list": a link is processed with its
\* upstream node; when no node is ready the next one is the first unplaced
\* neighbour in the adjacency list of the node placed last, else the
\* unplaced node of lowest index. One node is placed per round, so the
\* rounds number the nodes.
RECURSIVE sortNodes(_, _, _)
sortNodes(M, q, order) ==
    LET left == (1..M.Nobjects[NODE]) \ SeqRange(order)
        ready == {n \in left : \A k \in Inflows(M, q, n) : UpNode(M, k, q) \in SeqRange(order)}
        adj == IF order = <<>> THEN <<>> ELSE M.Adjlist.list[order[Len(order)]]
        nbrs == {i \in 1..Len(adj) : adj[i].node \in left}
        next == IF ready # {} THEN SetMin(ready)
                ELSE IF nbrs # {} THEN adj[SetMin(nbrs)].node
                ELSE SetMin(left)
    IN  IF left = {} THEN order ELSE sortNodes(M, q, Append(order, next))

\* "sub-stepped by dt <= min over pipes of volume/|flow|", at most one unit
SubStep(M, q) ==
    LET lim == {FracDiv(M.Pipe[k].vol, FracAbs(q[k])) : k \in {j \in DOMAIN q : q[j].n # 0}}
    IN  IF lim = {} THEN Frac(1)
        ELSE FracMin(Frac(1), CHOOSE x \in lim : \A y \in lim : FracLeq(x, y))

\* one link released by its upstream node: head ejection into the
\* downstream node's inflow, new tail at the node's concentration, merging
RECURSIVE sendFlow(_, _, _, _, _, _)
sendFlow(M, q, dt, S, links, c) ==
    IF links = <<>> THEN S
    ELSE LET k == links[1]
             V == FracMul(FracAbs(q[k]), dt)
             dn == DownNode(M, k, q)
             segs == S.Pipe[k].segs
             S1 == [S EXCEPT
                      !.Pipe[k].segs = mergeSmall(mergeEqual(addSeg(ejectSegs(segs, V), V, c)), V),
                      !.mass[dn] = FracAdd(@, ejectedMass(segs, V)),
                      !.vin[dn] = FracAdd(@, V),
                      !.events = Append(@, [link |-> k, node |-> 0])]
         IN  sendFlow(M, q, dt, S1, Tail(links), c)

\* the nodes in sorted order: each mixes what its inflow links have
\* delivered so far (the source concentration src when nothing arrived) and
\* releases it to its outflow links
RECURSIVE processNodes(_, _, _, _, _, _)
processNodes(M, q, dt, S, order, src) ==
    IF order = <<>> THEN S
    ELSE LET n == order[1]
             c == IF S.vin[n].n = 0 THEN src
                  ELSE FracFloor(FracDiv(S.mass[n], S.vin[n]))
             S1 == [S EXCEPT !.events = Append(@, [link |-> 0, node |-> n])]
         IN  processNodes(M, q, dt,
                          sendFlow(M, q, dt, S1, SortedSeq(Outflows(M, q, n)), c),
                          Tail(order), src)

\* One transport sub-step under the link flows q; out is the sequence of
\* nodes processed and links released, in time order.
transport(M, T, q, src) ==
    IF ~M.Initialized \/ M.Adjlist.st # "ok" \/ DOMAIN q # DOMAIN M.Pipe
    THEN RetOut(ERR_MSX_NOT_OPENED, M, T, <<>>)
    ELSE LET P == [k \in DOMAIN M.Pipe |-> reverseSegs(M.Pipe[k], q[k])]
             S0 == [Pipe |-> P,
                    mass |-> [n \in 1..M.Nobjects[NODE] |-> Frac(0)],
                    vin |-> [n \in 1..M.Nobjects[NODE] |-> Frac(0)],
                    events |-> <<>>]
             S == processNodes(M, q, SubStep(M, q), S0, sortNodes(M, q, <<>>), src)
         IN  RetOut(NOERR, [M EXCEPT !.Pipe = S.Pipe], T, S.events)

MSXqual_open(M) == [M EXCEPT !.QualityOpened = TRUE]

\* MSXqual_init: enters the Initialized phase: the quality clock is reset
\* and the running concentrations are seeded from the initial ones
MSXqual_init(M) ==
    [M EXCEPT !.Initialized = TRUE, !.Qtime = 0,
              !.Pipe = seedSegs(M),
              !.Node = [i \in 1..Len(@) |->
                  IF M.Node[i].c.st = "ok" /\ M.Node[i].c0.st = "ok"
                  THEN [M.Node[i] EXCEPT !.c = M.Node[i].c0] ELSE M.Node[i]]]

MSX_init(M, T) ==
    IF Closed(M) THEN Ret(ERR_MSX_NOT_OPENED, M, T)
    ELSE Ret(NOERR, MSXqual_init(MSXqual_open(finishInit(M))), T)

\* MSXqual_step: stepping is rejected before Initialized; a step advances
\* the quality clock by Qstep
MSXqual_step(M, T) ==
    IF ~M.Initialized THEN RetOut(ERR_MSX_NOT_OPENED, M, T, <<>>)
    ELSE LET M1 == [M EXCEPT !.Qtime = @ + M.Qstep]
         IN  RetOut(NOERR, M1, T, <<M1.Qtime>>)

MSXstep(M, T) ==
    IF ~M.ProjectOpened THEN Ret(ERR_MSX_NOT_OPENED, M, T)
    ELSE MSXqual_step(M, T)

----------------------------------------------------------------------------
(* Lookup by id: coretoolkit.c *)

IndexKinds == {SPECIES, MSX_CONSTANT, PARAMETER, PATTERN, NODE, LINK}

MSXgetindex(M, T, type, id) ==
    IF ~M.ProjectOpened THEN RetOut(ERR_MSX_NOT_OPENED, M, T, <<0>>)
    ELSE IF type \notin IndexKinds THEN RetOut(ERR_INVALID_OBJECT_TYPE, M, T, <<0>>)
    ELSE Tab(T,
      IF findObject(T, type, id) < 1
      THEN RetOut(ERR_UNDEFINED_OBJECT_ID, M, T, <<0>>)
      ELSE RetOut(NOERR, M, T, <<findObject(T, type, id)>>))

----------------------------------------------------------------------------
(* Calls.  Do(op, p, a, R, mc): the caller invokes handler op on project p *)
(* with arguments a; R is the handler's result; mc bounds the run length.  *)

\* the add*/set* configuration calls of the API
ConfigOps ==
    {"MSXaddNode", "MSXaddTank", "MSXaddReservoir", "MSXaddLink", "MSXaddOption",
     "MSXaddSpecies", "MSXaddCoefficeint", "MSXaddTerm", "MSXaddExpression",
     "MSXaddSource", "MSXaddQuality", "MSXaddParameter", "MSXsetReport",
     "MSXsetHydraulics", "MSXsetconstant", "MSXsetparameter", "MSXsetinitqual",
     "MSXsetsource", "MSXsetpatternvalue", "MSXaddpattern", "MSXsetpattern"}

\* the value of last and prior before any call
NoCall == [op |-> "none", p |-> 0, ret |-> NOERR, a |-> [id |-> ""], out |-> <<>>]

Do(op, p, a, R, mc) ==
    /\ ~ub
    /\ calls < mc
    /\ MSX' = [MSX EXCEPT ![p] = R.M]
    /\ Htable' = R.H
    /\ prevMSX' = MSX
    /\ prevHtable' = Htable
    /\ last' = [op |-> op, p |-> p, ret |-> R.ret, a |-> a, out |-> R.out]
    /\ prior' = IF last.op = "MSX_init" THEN last ELSE NoCall
    /\ inited' = [inited EXCEPT ![p] =
                    IF op = "MSX_open" THEN FALSE
                    ELSE IF op = "MSX_init" /\ R.ret = NOERR THEN TRUE
                    ELSE @]
    /\ calls' = calls + 1
    /\ cfgcalls' = IF op \in ConfigOps THEN cfgcalls + 1 ELSE cfgcalls
    /\ ub' = R.ub

\* input domains
TypeIn == {BULK, WALL, 2}
UnitsIn == {"MG", "X"}
TolIn == {0, 5}
EquationIn == {"bad", "k*c", "x9"}
CoefTypeIn == {PARAMETER, MSX_CONSTANT, "X"}
Vol0 == Frac(10)
VolMix0 == Frac(5)
Len0 == Frac(100)
DiamIn == {Frac(12)}
PatIn == 0..(MaxObj + 1)
IndexIn == 0..MaxObj
OptionIn == {"AREA_UNITS_OPTION", "RATE_UNITS_OPTION", "SOLVER_OPTION",
             "COUPLING_OPTION", "TIMESTEP_OPTION", "RTOL_OPTION", "ATOL_OPTION",
             "COMPILER_OPTION", "X"}
OptValueIn == {"M2", "MIN", "RK5", "FULL", "VC", "60", "bad"}
\* per option: a value it accepts and one it does not
OptValueOf(optionType) ==
    CASE optionType = "AREA_UNITS_OPTION" -> {"M2", "bad"}
      [] optionType = "RATE_UNITS_OPTION" -> {"MIN", "bad"}
      [] optionType = "SOLVER_OPTION" -> {"RK5", "bad"}
      [] optionType = "COUPLING_OPTION" -> {"FULL", "bad"}
      [] optionType = "COMPILER_OPTION" -> {"VC", "bad"}
      [] OTHER -> {"60", "bad"}
PeriodIn == 0..(MaxMult + 1)
MultIn == {1, 3}
MultSeqs == UNION {[1..n -> MultIn] : n \in 0..MaxMult}

Room(p, kind) == MSX[p].Nobjects[kind] < MaxObj

Call_open(p, mc) == Do("MSX_open", p, [id |-> ""], MSX_open(MSX[p], Htable), mc)

Call_close(p, mc) == Do("MSX_close", p, [id |-> ""], MSX_close(MSX[p], Htable), mc)

Call_init(p, mc) == Do("MSX_init", p, [id |-> ""], MSX_init(MSX[p], Htable), mc)

Call_step(p, mc) == Do("MSXstep", p, [id |-> ""], MSXstep(MSX[p], Htable), mc)

Call_getindex(p, mc) ==
    \E type \in Kinds, id \in IDS :
       Do("MSXgetindex", p, [type |-> type, id |-> id],
          MSXgetindex(MSX[p], Htable, type, id), mc)

Call_addNode(p, mc) ==
    \E id \in IDS :
       /\ Room(p, NODE)
       /\ Do("MSXaddNode", p, [id |-> id], MSXaddNode(MSX[p], Htable, id), mc)

Call_addTank(p, mc) ==
    \E id \in IDS :
       /\ Room(p, NODE) /\ Room(p, TANK)
       /\ Do("MSXaddTank", p, [id |-> id],
             MSXaddTank(MSX[p], Htable, id, Vol0, 0, VolMix0), mc)

Call_addReservoir(p, mc) ==
    \E id \in IDS :
       /\ Room(p, NODE) /\ Room(p, TANK)
       /\ Do("MSXaddReservoir", p, [id |-> id],
             MSXaddReservoir(MSX[p], Htable, id, Vol0, 0, VolMix0), mc)

Call_addLink(p, mc) ==
    \E id \in IDS, s \in IDS, e \in IDS, d \in DiamIn :
       /\ Room(p, LINK)
       /\ Do("MSXaddLink", p, [id |-> id, startNode |-> s, endNode |-> e],
             MSXaddLink(MSX[p], Htable, id, s, e, Len0, d, 1), mc)

Call_addSpecies(p, mc) ==
    \E id \in IDS, type \in TypeIn, units \in UnitsIn, aTol \in TolIn :
       /\ Room(p, SPECIES)
       /\ Do("MSXaddSpecies", p, [id |-> id, type |-> type, units |-> units],
             MSXaddSpecies(MSX[p], Htable, id, type, units, aTol, 0), mc)

Call_addCoefficeint(p, mc) ==
    \E id \in IDS, type \in CoefTypeIn :
       /\ Room(p, PARAMETER) /\ Room(p, MSX_CONSTANT)
       /\ Do("MSXaddCoefficeint", p, [id |-> id, type |-> type],
             MSXaddCoefficeint(MSX[p], Htable, type, id, 7), mc)

Call_addTerm(p, mc) ==
    \E id \in IDS, eq \in EquationIn :
       /\ Room(p, TERM)
       /\ Do("MSXaddTerm", p, [id |-> id, equation |-> eq],
             MSXaddTerm(MSX[p], Htable, id, eq), mc)

Call_addpattern(p, mc) ==
    \E id \in IDS :
       /\ Room(p, PATTERN)
       /\ Do("MSXaddpattern", p, [id |-> id], MSXaddpattern(MSX[p], Htable, id), mc)

Call_setpattern(p, mc) ==
    \E pat \in PatIn, mult \in MultSeqs :
     \E len \in {Len(mult)} \cup (IF mult = <<>> THEN {-1} ELSE {}) :
           Do("MSXsetpattern", p, [pat |-> pat, mult |-> mult, len |-> len],
              MSXsetpattern(MSX[p], Htable, pat, mult, len), mc)

Call_setpatternvalue(p, mc) ==
    \E pat \in PatIn, period \in PeriodIn, value \in MultIn :
       Do("MSXsetpatternvalue", p, [pat |-> pat, period |-> period, value |-> value],
          MSXsetpatternvalue(MSX[p], Htable, pat, period, value), mc)

Call_getpatternlen(p, mc) ==
    \E pat \in PatIn :
       Do("MSXgetpatternlen", p, [pat |-> pat],
          MSXgetpatternlen(MSX[p], Htable, pat), mc)

Call_getpatternvalue(p, mc) ==
    \E pat \in PatIn, period \in PeriodIn :
       Do("MSXgetpatternvalue", p, [pat |-> pat, period |-> period],
          MSXgetpatternvalue(MSX[p], Htable, pat, period), mc)

Call_addOption(p, mc) ==
    \E optionType \in OptionIn, value \in OptValueIn :
       /\ value \in OptValueOf(optionType)
       /\ Do("MSXaddOption", p, [optionType |-> optionType, value |-> value],
          MSXaddOption(MSX[p], Htable, optionType, value), mc)

Call_addExpression(p, mc) ==
    \E classType \in {LINK, TANK, NODE}, expressionType \in {0, 1, 4},
       species \in IDS, eq \in {"bad", "k*c"} :
       Do("MSXaddExpression", p,
          [classType |-> classType, expressionType |-> expressionType,
           species |-> species, equation |-> eq],
          MSXaddExpression(MSX[p], Htable, classType, expressionType, species, eq), mc)

Call_addSource(p, mc) ==
    \E sourceType \in {1, 4}, nodeId \in IDS, speciesId \in IDS, pat \in IDS :
       Do("MSXaddSource", p,
          [sourceType |-> sourceType, nodeId |-> nodeId, speciesId |-> speciesId,
           strength |-> 2, timePattern |-> pat],
          MSXaddSource(MSX[p], Htable, sourceType, nodeId, speciesId, 2, pat), mc)

Call_addQuality(p, mc) ==
    \E type \in {"GLOBAL", "NODE", "LINK", "X"}, speciesId \in IDS, id \in IDS :
       Do("MSXaddQuality", p, [type |-> type, speciesId |-> speciesId, id |-> id],
          MSXaddQuality(MSX[p], Htable, type, speciesId, 4, id), mc)

Call_addParameter(p, mc) ==
    \E type \in {"PIPE", "TANK", "X"}, paramId \in IDS, id \in IDS :
       Do("MSXaddParameter", p,
          [type |-> type, paramId |-> paramId, value |-> 6, id |-> id],
          MSXaddParameter(MSX[p], Htable, type, paramId, 6, id), mc)

Call_setReport(p, mc) ==
    \E reportType \in ReportWords \cup {"X"}, id \in IDS \cup {"60"} :
       Do("MSXsetReport", p, [reportType |-> reportType, id |-> id],
          MSXsetReport(MSX[p], Htable, reportType, id, 3), mc)

Call_setHydraulics(p, mc) ==
    Do("MSXsetHydraulics", p, [id |-> ""], MSXsetHydraulics(MSX[p], Htable, 1, 2, 3), mc)

Call_setconstant(p, mc) ==
    \E index \in IndexIn :
       Do("MSXsetconstant", p, [index |-> index],
          MSXsetconstant(MSX[p], Htable, index, 8), mc)

Call_setparameter(p, mc) ==
    \E type \in {NODE, LINK, TANK}, index \in IndexIn, param \in IndexIn :
       Do("MSXsetparameter", p, [type |-> type, index |-> index, param |-> param],
          MSXsetparameter(MSX[p], Htable, type, index, param, 8), mc)

Call_setinitqual(p, mc) ==
    \E type \in {NODE, LINK, TANK}, index \in IndexIn, species \in IndexIn :
       Do("MSXsetinitqual", p, [type |-> type, index |-> index, species |-> species],
          MSXsetinitqual(MSX[p], Htable, type, index, species, 8), mc)

Call_setsource(p, mc) ==
    \E node \in IndexIn, species \in IndexIn,
       x \in {<<1, 2, -1>>, <<-2, 2, 0>>, <<1, -1, 0>>, <<1, 2, MaxObj + 1>>} :
     LET type == x[1]  level == x[2]  pat == x[3]
     IN  Do("MSXsetsource", p,
          [node |-> node, species |-> species, type |-> type, level |-> level,
           pat |-> pat],
          MSXsetsource(MSX[p], Htable, node, species, type, level, pat), mc)

----------------------------------------------------------------------------
(* Spec: one project, lifecycle and topology/chemistry construction *)

InitWith(Q1, Q2) ==
    /\ \E q1 \in Q1, q2 \in Q2 :
          MSX = [p \in Projects |-> IF p = 1 THEN NewProject(q1) ELSE NewProject(q2)]
    /\ Htable = HtableInit
    /\ prevMSX = MSX
    /\ prevHtable = Htable
    /\ last = NoCall
    /\ prior = NoCall
    /\ inited = [p \in Projects |-> FALSE]
    /\ calls = 0
    /\ cfgcalls = 0
    /\ ub = FALSE

Init == InitWith(BOOLEAN, {FALSE})

Next ==
    \/ Call_open(1, MaxCalls)
    \/ Call_close(1, MaxCalls)
    \/ Call_addNode(1, MaxCalls)
    \/ Call_addTank(1, MaxCalls)
    \/ Call_addReservoir(1, MaxCalls)
    \/ Call_addLink(1, MaxCalls)
    \/ Call_addSpecies(1, MaxCalls)
    \/ Call_addCoefficeint(1, MaxCalls)
    \/ Call_addTerm(1, MaxCalls)
    \/ Call_addpattern(1, MaxCalls)

Spec == Init /\ [][Next]_vars

----------------------------------------------------------------------------
(* Vocabulary of the properties *)

AddOps == {"MSXaddNode", "MSXaddTank", "MSXaddReservoir", "MSXaddLink",
           "MSXaddSpecies", "MSXaddCoefficeint", "MSXaddTerm", "MSXaddpattern"}

Called == last.p \in Projects
Cur == MSX[last.p]          \* the called project after the call
Prev == prevMSX[last.p]     \* the called project before the call

ArrayOf(M, kind) ==
    CASE kind = NODE -> M.Node
      [] kind = TANK -> M.Tank
      [] kind = LINK -> M.Link
      [] kind = SPECIES -> M.Species
      [] kind = TERM -> M.Term
      [] kind = PARAMETER -> M.Param
      [] kind = MSX_CONSTANT -> M.Const
      [] kind = PATTERN -> M.Pattern

\* ids of the objects 1..Nobjects[kind] of project M
ObjIds(M, kind) ==
    IF M.Nobjects[kind] <= Len(ArrayOf(M, kind))
    THEN {ArrayOf(M, kind)[i].id : i \in 1..M.Nobjects[kind]}
    ELSE {}

\* the kind of object the last add call was asked to add
AddedKind ==
    CASE last.op = "MSXaddNode" -> NODE
      [] last.op = "MSXaddTank" -> TANK
      [] last.op = "MSXaddReservoir" -> TANK
      [] last.op = "MSXaddLink" -> LINK
      [] last.op = "MSXaddSpecies" -> SPECIES
      [] last.op = "MSXaddTerm" -> TERM
      [] last.op = "MSXaddpattern" -> PATTERN
      [] last.op = "MSXaddCoefficeint" ->
           (IF last.a.type = PARAMETER THEN PARAMETER ELSE MSX_CONSTANT)
      [] OTHER -> NODE

----------------------------------------------------------------------------
(* Properties checked under Spec *)

\* C3: an add* call that returns a non-zero code leaves the number of
\* objects of every kind as it was before the call.
C3_FailedAddKeepsCounts ==
    (Called /\ last.op \in AddOps /\ last.ret # NOERR)
        => Cur.Nobjects = Prev.Nobjects

\* C4: an add* call that returns a non-zero code leaves the id-to-index
\* name table of every kind unchanged (the rejected id is not registered).
C4_FailedAddKeepsNames ==
    (Called /\ last.op \in AddOps /\ last.ret # NOERR)
        => Htable.tab = prevHtable.tab

\* C7: on a project that MSX_open has opened (and that was not closed
\* since), MSXaddNode with a fresh valid id returns 0, the node count grows
\* by exactly 1 and the new node gets the index equal to the new count.
C7_OpenAdmitsAddNode ==
    (/\ Called /\ last.op = "MSXaddNode"
     /\ Prev.ProjectOpened
     /\ findObject(prevHtable, NODE, last.a.id) < 1
     /\ checkID(prevHtable, last.a.id) = NOERR)
        => /\ last.ret = NOERR
           /\ Cur.Nobjects[NODE] = Prev.Nobjects[NODE] + 1
           /\ findObject(Htable, NODE, last.a.id) = Cur.Nobjects[NODE]

\* C9: MSX_open on a project that is already open returns the
\* AlreadyOpened error and leaves counts, arrays and name tables unchanged.
C9_ReopenRejected ==
    (Called /\ last.op = "MSX_open" /\ Prev.ProjectOpened)
        => /\ last.ret = ERR_MSX_OPENED
           /\ MSX = prevMSX
           /\ Htable = prevHtable

\* the last call was an add whose id already named an object of the kind
\* it adds
DuplicateAdd ==
    /\ Called /\ last.op \in AddOps
    /\ (last.op = "MSXaddCoefficeint" => last.a.type \in {PARAMETER, MSX_CONSTANT})
    /\ last.a.id \in ObjIds(Prev, AddedKind)

----------------------------------------------------------------------------
(* SpecPat: one project, its time patterns *)

NextPat ==
    \/ Call_open(1, MaxPatCalls)
    \/ Call_close(1, MaxPatCalls)
    \/ Call_addpattern(1, MaxPatCalls)
    \/ Call_setpattern(1, MaxPatCalls)
    \/ Call_setpatternvalue(1, MaxPatCalls)
    \/ Call_getpatternlen(1, MaxPatCalls)
    \/ Call_getpatternvalue(1, MaxPatCalls)

SpecPat == Init /\ [][NextPat]_vars

\* the values MSXgetpatternvalue returns for periods i..n, called in that
\* order starting on project struct M
RECURSIVE ReadBack(_, _, _, _, _)
ReadBack(M, T, pat, i, n) ==
    IF i > n THEN <<>>
    ELSE LET R == MSXgetpatternvalue(M, T, pat, i)
         IN  <<[ret |-> R.ret, value |-> R.out[1]]>> \o ReadBack(R.M, T, pat, i + 1, n)

\* C6: after MSXsetpattern(p, m, n) with n >= 0 returns 0, MSXgetpatternlen(p)
\* returns n and MSXgetpatternvalue(p, i+1) returns m[i] for every i in
\* 0..n-1, whatever the pattern held before.
C6_PatternRoundTrip ==
    (Called /\ last.op = "MSXsetpattern" /\ last.ret = NOERR /\ last.a.len >= 0)
        => LET n == last.a.len
               L == MSXgetpatternlen(Cur, Htable, last.a.pat)
               V == ReadBack(Cur, Htable, last.a.pat, 1, n)
           IN  /\ L.ret = NOERR /\ L.out = <<n>>
               /\ V = [i \in 1..n |-> [ret |-> NOERR, value |-> last.a.mult[i]]]

\* C6 witness: a pattern that held multipliers is given a different,
\* non-empty vector of another length, and the call returned 0.
C6_Witness ==
    /\ Called /\ last.op = "MSXsetpattern" /\ last.ret = NOERR
    /\ last.a.len = 2 /\ last.a.mult[1] # last.a.mult[2]
    /\ Prev.Pattern[last.a.pat].length = 1
    /\ Prev.Pattern[last.a.pat].first[1] # last.a.mult[1]

----------------------------------------------------------------------------
(* SpecInit: one project, from construction through initialisation and     *)
(* stepping                                                                *)

NextInit ==
    \/ Call_open(1, MaxInitCalls)
    \/ Call_close(1, MaxInitCalls)
    \/ Call_addNode(1, MaxInitCalls)
    \/ Call_addTank(1, MaxInitCalls)
    \/ Call_addLink(1, MaxInitCalls)
    \/ Call_addSpecies(1, MaxInitCalls)
    \/ Call_init(1, MaxInitCalls)
    \/ Call_step(1, MaxInitCalls)

SpecInit == Init /\ [][NextInit]_vars

\* C2: MSXstep on a project that is open but on which MSX_init has not
\* returned 0 since the last MSX_open returns an error code and changes
\* neither the quality clock nor any concentration.
C2_StepBeforeInitRejected ==
    (Called /\ last.op = "MSXstep" /\ Prev.ProjectOpened /\ ~inited[last.p])
        => /\ last.ret # NOERR
           /\ Cur.Qtime = Prev.Qtime
           /\ Cur.Node = Prev.Node /\ Cur.Link = Prev.Link /\ Cur.Tank = Prev.Tank

\* C8: when MSX_init returns 0 twice in a row on the same project, the
\* second call leaves the project as the first call left it (lengths,
\* diameters, tank volumes, tolerances, clock, concentrations).
C8_InitIdempotent ==
    (/\ Called /\ last.op = "MSX_init" /\ last.ret = NOERR
     /\ prior.op = "MSX_init" /\ prior.ret = NOERR /\ prior.p = last.p)
        => Cur = Prev

----------------------------------------------------------------------------
(* SpecTwo: two projects in one process *)

InitTwo == InitWith(BOOLEAN, BOOLEAN)

NextTwo ==
    \/ \E p \in Projects : Call_open(p, MaxTwoCalls)
    \/ \E p \in Projects : Call_close(p, MaxTwoCalls)
    \/ \E p \in Projects : Call_addNode(p, MaxTwoCalls)
    \/ \E p \in Projects : Call_addpattern(p, MaxTwoCalls)
    \/ \E p \in Projects : Call_getindex(p, MaxTwoCalls)

SpecTwo == InitTwo /\ [][NextTwo]_vars

\* what MSXgetindex(type, id) on project q answers in the given state
Lookup(MM, T, q, type, id) ==
    LET R == MSXgetindex(MM[q], T, type, id)
    IN  [ret |-> R.ret, index |-> R.out[1], ub |-> R.ub]

\* C5: the name tables of two open projects are disjoint state: an open,
\* close or add* call on one project changes no MSXgetindex answer on the
\* other (open) project.
C5_ProjectsShareNoNames ==
    (/\ Called /\ last.op \in AddOps \cup {"MSX_open", "MSX_close"}
     /\ (last.op # "MSX_open" => Prev.ProjectOpened))
        => \A q \in Projects \ {last.p} :
              (prevMSX[q].ProjectOpened /\ MSX[q].ProjectOpened)
                 => \A type \in IndexKinds, id \in IDS :
                       Lookup(MSX, Htable, q, type, id)
                         = Lookup(prevMSX, prevHtable, q, type, id)

----------------------------------------------------------------------------
(* SpecCfg: one project, every configuration call of the API *)

CfgRoom == cfgcalls < MaxCfgOps

NextCfg ==
    \/ Call_open(1, MaxCfgCalls)
    \/ Call_close(1, MaxCfgCalls)
    \/ CfgRoom /\ Call_addNode(1, MaxCfgCalls)
    \/ CfgRoom /\ Call_addTank(1, MaxCfgCalls)
    \/ CfgRoom /\ Call_addReservoir(1, MaxCfgCalls)
    \/ CfgRoom /\ Call_addLink(1, MaxCfgCalls)
    \/ CfgRoom /\ Call_addOption(1, MaxCfgCalls)
    \/ CfgRoom /\ Call_addSpecies(1, MaxCfgCalls)
    \/ CfgRoom /\ Call_addCoefficeint(1, MaxCfgCalls)
    \/ CfgRoom /\ Call_addTerm(1, MaxCfgCalls)
    \/ CfgRoom /\ Call_addExpression(1, MaxCfgCalls)
    \/ CfgRoom /\ Call_addSource(1, MaxCfgCalls)
    \/ CfgRoom /\ Call_addQuality(1, MaxCfgCalls)
    \/ CfgRoom /\ Call_addParameter(1, MaxCfgCalls)
    \/ CfgRoom /\ Call_setReport(1, MaxCfgCalls)
    \/ CfgRoom /\ Call_setHydraulics(1, MaxCfgCalls)
    \/ CfgRoom /\ Call_setconstant(1, MaxCfgCalls)
    \/ CfgRoom /\ Call_setparameter(1, MaxCfgCalls)
    \/ CfgRoom /\ Call_setinitqual(1, MaxCfgCalls)
    \/ CfgRoom /\ Call_setsource(1, MaxCfgCalls)
    \/ CfgRoom /\ Call_setpatternvalue(1, MaxCfgCalls)
    \/ CfgRoom /\ Call_addpattern(1, MaxCfgCalls)
    \/ CfgRoom /\ Call_setpattern(1, MaxCfgCalls)

SpecCfg == Init /\ [][NextCfg]_vars

\* C1: on a project that is not open (ProjectOpened false), every add*/set*
\* configuration call, whatever its arguments, returns the not-opened error
\* and leaves the project and the name tables unchanged.
C1_ClosedRejectsConfig ==
    (Called /\ last.op \in ConfigOps /\ ~Prev.ProjectOpened)
        => /\ last.ret = ERR_MSX_NOT_OPENED
           /\ MSX = prevMSX
           /\ Htable = prevHtable

----------------------------------------------------------------------------
(* SpecExpr: one project, its species, terms and their expressions *)

\* The input reader's sharing of a species' pipe expression with its tank
\* expression ("a species' tank expression may alias its pipe expression"):
\* species i, which has a pipe tree and no tank tree, gets the pipe tree as
\* its tank expression too.
shareTankExpr(M, T, i) ==
    IF i \in 1..Len(M.Species) /\ i <= M.Nobjects[SPECIES]
         /\ M.Species[i].pipeExpr.st = "ok" /\ M.Species[i].tankExpr.st = "null"
    THEN Ret(NOERR, [M EXCEPT !.Species[i].tankExpr = M.Species[i].pipeExpr,
                              !.Species[i].tankExprType = M.Species[i].pipeExprType], T)
    ELSE Ret(NOERR, M, T)

NextExpr ==
    \/ Call_open(1, MaxExprCalls)
    \/ Call_close(1, MaxExprCalls)
    \/ Call_addSpecies(1, MaxExprCalls)
    \/ Call_addTerm(1, MaxExprCalls)
    \/ Call_addExpression(1, MaxExprCalls)
    \/ \E i \in 1..MaxObj :
          Do("shareTankExpr", 1, [index |-> i],
             shareTankExpr(MSX[1], Htable, i), MaxExprCalls)

SpecExpr == Init /\ [][NextExpr]_vars

\* the species slot an MSXaddExpression call names, 0 when the id resolves
\* to no assigned slot
ExprSpecies ==
    LET i == findObject(prevHtable, SPECIES, last.a.species)
    IN  IF prevHtable.st = "live" /\ i \in 1..Len(Prev.Species) /\ Prev.Species[i].set
        THEN i ELSE 0

\* an earlier MSXaddExpression returned 0 for the species and class of the
\* last call: only such a call stores a tree in the slot
ExprStored ==
    /\ ExprSpecies > 0
    /\ \/ last.a.classType = LINK /\ Prev.Species[ExprSpecies].pipeExpr.st = "ok"
       \/ last.a.classType = TANK /\ Prev.Species[ExprSpecies].tankExpr.st = "ok"

\* C11: an MSXaddExpression call (expression type code in 0..3) for a
\* species and class for which an earlier call returned 0 returns
\* ERR_DUP_EXPR and leaves the species' expressions and their types
\* unchanged.
C11_DuplicateExpressionRejected ==
    (/\ Called /\ last.op = "MSXaddExpression" /\ ~Closed(Prev)
     /\ last.a.expressionType \in 0..3
     /\ ExprStored)
        => /\ last.ret = ERR_DUP_EXPR
           /\ Cur.Species[ExprSpecies] = Prev.Species[ExprSpecies]

\* i is not the index of an object of the kind in the project before the call
OutOfRange(i, kind) == i < 1 \/ i > Prev.Nobjects[kind]

\* the last call is an index-taking setter and one of its entity indices
\* names no object
BadIndexCall ==
    /\ Called /\ Prev.ProjectOpened
    /\ \/ last.op = "MSXsetconstant" /\ OutOfRange(last.a.index, MSX_CONSTANT)
       \/ /\ last.op = "MSXsetparameter" /\ last.a.type \in {NODE, LINK}
          /\ OutOfRange(last.a.param, PARAMETER) \/ OutOfRange(last.a.index, last.a.type)
       \/ /\ last.op = "MSXsetinitqual" /\ last.a.type \in {NODE, LINK}
          /\ OutOfRange(last.a.species, SPECIES) \/ OutOfRange(last.a.index, last.a.type)
       \/ /\ last.op = "MSXsetsource"
          /\ OutOfRange(last.a.node, NODE) \/ OutOfRange(last.a.species, SPECIES)
       \/ /\ last.op \in {"MSXsetpattern", "MSXsetpatternvalue"}
          /\ OutOfRange(last.a.pat, PATTERN)

\* the last call is an MSXaddParameter whose parameter id or object id
\* names nothing
UnresolvedAddParameter ==
    /\ Called /\ last.op = "MSXaddParameter" /\ ~Closed(Prev)
    /\ prevHtable.st = "live"
    /\ last.a.type \in {"PIPE", "TANK"}
    /\ \/ findObject(prevHtable, PARAMETER, last.a.paramId) < 1
       \/ findObject(prevHtable, IF last.a.type = "PIPE" THEN LINK ELSE TANK, last.a.id) < 1

\* C12: an index-taking setter given an index < 1 or > count returns
\* ERR_INVALID_OBJECT_INDEX, and an MSXaddParameter whose parameter id or
\* object id does not resolve returns an error; both leave the project
\* unchanged and address no slot outside 1..count.
C12_NoSlotOutsideRange ==
    /\ BadIndexCall => (last.ret = ERR_INVALID_OBJECT_INDEX /\ Cur = Prev /\ ~ub)
    /\ UnresolvedAddParameter => (last.ret # NOERR /\ Cur = Prev /\ ~ub)

\* the value is one the option accepts
ValidOption(optionType, value) ==
    CASE optionType = "AREA_UNITS_OPTION" -> value \in AreaUnitsWords
      [] optionType = "RATE_UNITS_OPTION" -> value \in TimeUnitsWords
      [] optionType = "SOLVER_OPTION" -> value \in SolverTypeWords
      [] optionType = "COUPLING_OPTION" -> value \in CouplingWords
      [] optionType = "COMPILER_OPTION" -> value \in CompilerWords
      [] optionType = "TIMESTEP_OPTION" -> value = "60"
      [] optionType \in {"RTOL_OPTION", "ATOL_OPTION"} -> value \in {"60", "0"}
      [] OTHER -> FALSE

\* the project M with the value stored in the option's setting
WithOption(M, optionType, value) ==
    CASE optionType = "AREA_UNITS_OPTION" -> [M EXCEPT !.AreaUnits = value]
      [] optionType = "RATE_UNITS_OPTION" -> [M EXCEPT !.RateUnits = value]
      [] optionType = "SOLVER_OPTION" -> [M EXCEPT !.Solver = value]
      [] optionType = "COUPLING_OPTION" -> [M EXCEPT !.Coupling = value]
      [] optionType = "COMPILER_OPTION" -> [M EXCEPT !.Compiler = value]
      [] optionType = "TIMESTEP_OPTION" -> [M EXCEPT !.Qstep = 60]
      [] optionType = "RTOL_OPTION" ->
           [M EXCEPT !.DefRtol = IF value = "60" THEN 60000 ELSE 0]
      [] optionType = "ATOL_OPTION" ->
           [M EXCEPT !.DefAtol = IF value = "60" THEN 60000 ELSE 0]

\* C13: MSXaddOption with one of the eight option kinds and a value the
\* option accepts, on a project that admits configuration, returns 0 and
\* stores the value in that option's setting, changing nothing else.
C13_OptionStored ==
    (/\ Called /\ last.op = "MSXaddOption" /\ ~Closed(Prev)
     /\ ValidOption(last.a.optionType, last.a.value))
        => /\ last.ret = NOERR
           /\ Cur = WithOption(Prev, last.a.optionType, last.a.value)

----------------------------------------------------------------------------
(* SpecFile: one project and its files, from open to close *)

NextFile ==
    \/ Call_open(1, MaxFileCalls)
    \/ Call_close(1, MaxFileCalls)
    \/ Do("MSXproj_close", 1, [id |-> ""], MSXproj_close(MSX[1], Htable), MaxFileCalls)
    \/ Call_addNode(1, MaxFileCalls)
    \/ Call_init(1, MaxFileCalls)
    \/ Call_step(1, MaxFileCalls)
    \/ \E ok \in BOOLEAN :
          Do("openRptFile", 1, [ok |-> ok], openRptFile(MSX[1], Htable, ok), MaxFileCalls)
    \/ \E alias \in BOOLEAN :
          Do("MSXout_open", 1, [alias |-> alias],
             MSXout_open(MSX[1], Htable, alias), MaxFileCalls)

SpecFile == Init /\ [][NextFile]_vars

OwnedTrees(M) ==
    LET ns == IF M.Species = <<>> THEN 0 ELSE M.Nobjects[SPECIES]
        nt == IF M.Term = <<>> THEN 0 ELSE M.Nobjects[TERM]
    IN  {M.Species[i].pipeExpr.addr : i \in {k \in 1..ns : M.Species[k].pipeExpr.st = "ok"}}
          \cup {M.Species[i].tankExpr.addr : i \in {k \in 1..ns : M.Species[k].tankExpr.st = "ok"}}
          \cup {M.Term[i].expr.addr : i \in {k \in 1..nt : M.Term[k].expr.st = "ok"}}

\* C15: when MSX_close deletes the project's objects, every pointer it
\* passes to mathexpr_delete is a tree that a species or a term of the
\* project holds, and each such tree is passed exactly once (a tree shared
\* by the tank and pipe expression of a species included).
C15_EachTreeReleasedOnce ==
    (Called /\ last.op = "MSX_close")
        => LET rel == last.out[3]
           IN  /\ \A k \in 1..Len(rel) : rel[k] \in OwnedTrees(Prev)
               /\ \A a \in OwnedTrees(Prev) :
                     Cardinality({k \in 1..Len(rel) : rel[k] = a}) = 1

----------------------------------------------------------------------------
(* Transport specification: sub-steps on an initialised two-node network *)

\* link flows of a sub-step (signed, in the volume unit per time unit) and
\* the concentration a node without inflow releases
FlowIn(k) == IF k = 1 THEN {Frac(-40), Frac(0), Frac(60)}
             ELSE {Frac(-40), Quot(1, 25), Frac(60)}
SrcIn == {0, 1000}

\* MSX_open, MSXaddNode("a"), MSXaddNode or MSXaddTank ("b"), the links "a"
\* from s1 to e1 and "b" from "a" to "b", MSX_init
BuildNet(tank, s1, e1) ==
    LET r0 == MSX_open(NewProject(TRUE), HtableInit)
        r1 == MSXaddNode(r0.M, r0.H, "a")
        r2 == IF tank THEN MSXaddTank(r1.M, r1.H, "b", Vol0, 0, VolMix0)
              ELSE MSXaddNode(r1.M, r1.H, "b")
        r3 == MSXaddLink(r2.M, r2.H, "a", s1, e1, Len0, Frac(12), 1)
        r4 == MSXaddLink(r3.M, r3.H, "b", "a", "b", Len0, Frac(12), 1)
    IN  MSX_init(r4.M, r4.H)

InitQual ==
    /\ \E tank \in BOOLEAN, s1 \in IDS, e1 \in IDS :
          /\ MSX = [p \in Projects |->
                      IF p = 1 THEN BuildNet(tank, s1, e1).M
                      ELSE NewProject(FALSE)]
          /\ Htable = BuildNet(tank, s1, e1).H
    /\ prevMSX = MSX
    /\ prevHtable = Htable
    /\ last = NoCall
    /\ prior = NoCall
    /\ inited = [p \in Projects |-> p = 1]
    /\ calls = 0
    /\ cfgcalls = 0
    /\ ub = FALSE

NextQual ==
    \/ Call_step(1, MaxQualCalls)
    \/ Call_close(1, MaxQualCalls)
    \/ \E q \in {f \in [DOMAIN MSX[1].Pipe -> UNION {FlowIn(k) : k \in 1..2}] :
                    \A k \in DOMAIN f : f[k] \in FlowIn(k)},
          src \in SrcIn :
          Do("transport", 1, [q |-> q, src |-> src],
             transport(MSX[1], Htable, q, src), MaxQualCalls)

SpecQual == InitQual /\ [][NextQual]_vars

\* C16: in every state, the segment volumes of each pipe of each project add
\* up to the pipe's volume, and that volume is pi (d/2)^2 length of the link
\* (in units of pi/4); in particular after every transport sub-step, with
\* its head ejection, tail creation or extension, merging and reversal.
C16_SegmentVolumes ==
    \A p \in Projects : \A k \in DOMAIN MSX[p].Pipe :
        /\ SegVolume(MSX[p].Pipe[k].segs) = MSX[p].Pipe[k].vol
        /\ MSX[p].Pipe[k].vol = PipeVolume(MSX[p].Link[k])

\* a sub-step that reversed pipe 1, ejected its head segment whole and part
\* of the next one, and left a new tail segment behind
C16_Witness ==
    /\ Called /\ last.op = "transport" /\ last.ret = NOERR
    /\ Len(Prev.Pipe[1].segs) >= 2
    /\ last.a.q[1].n # 0
    /\ Prev.Pipe[1].dir # Cur.Pipe[1].dir
    /\ FracLess(Reverse(Prev.Pipe[1].segs)[1].v, FracAbs(last.a.q[1]))
    /\ Len(Cur.Pipe[1].segs) >= 2
    /\ Cur.Pipe[1].segs[Len(Cur.Pipe[1].segs)].c = last.a.src

\* the flows q have no directed cycle: no node is downstream of itself
Downstream(M, q, S) == {DownNode(M, k, q) : k \in {j \in DOMAIN q : q[j].n # 0 /\ UpNode(M, j, q) \in S}}
RECURSIVE ReachIn(_, _, _, _)
ReachIn(M, q, S, i) ==
    IF i = 0 THEN S ELSE ReachIn(M, q, S \cup Downstream(M, q, S), i - 1)
Acyclic(M, q) ==
    \A n \in 1..M.Nobjects[NODE] :
        n \notin ReachIn(M, q, Downstream(M, q, {n}), M.Nobjects[NODE])

\* every node is processed exactly once in the last sub-step
ProcessedOnce ==
    \A n \in 1..Prev.Nobjects[NODE] :
        Cardinality({i \in 1..Len(last.out) : last.out[i].node = n}) = 1

\* every link flowing into a node was released before the node is processed
InflowsFirst ==
    \A i \in 1..Len(last.out) :
        last.out[i].node > 0
            => \A k \in Inflows(Prev, last.a.q, last.out[i].node) :
                  \E j \in 1..(i - 1) : last.out[j].link = k

----------------------------------------------------------------------------
(* Query specification: add*, and get* calls on a configured project *)

MSXgetsource(M, T, node, species) ==
    LET none == <<MSX_NOSOURCE, 0, 0>>
    IN  IF ~M.ProjectOpened THEN RetOut(ERR_MSX_NOT_OPENED, M, T, none)
        ELSE IF node < 1 \/ node > M.Nobjects[NODE]
             THEN RetOut(ERR_INVALID_OBJECT_INDEX, M, T, none)
        ELSE IF species < 1 \/ species > M.Nobjects[SPECIES]
             THEN RetOut(ERR_INVALID_OBJECT_INDEX, M, T, none)
        ELSE IF node > Len(M.Node) THEN [RetOut(NOERR, M, T, none) EXCEPT !.ub = TRUE]
        ELSE LET src == M.Node[node].sources
                 hits == {k \in 1..Len(src) : src[k].species = species}
                 k == CHOOSE k \in hits : \A h \in hits : k <= h
             IN  IF hits = {} THEN RetOut(NOERR, M, T, none)
                 ELSE RetOut(NOERR, M, T, <<src[k].type, src[k].c0, src[k].pat>>)

MSXgetparameter(M, T, type, index, param) ==
    IF ~M.ProjectOpened THEN RetOut(ERR_MSX_NOT_OPENED, M, T, <<0>>)
    ELSE IF param < 1 \/ param > M.Nobjects[PARAMETER]
         THEN RetOut(ERR_INVALID_OBJECT_INDEX, M, T, <<0>>)
    ELSE IF type = NODE THEN
      IF index < 1 \/ index > M.Nobjects[NODE]
      THEN RetOut(ERR_INVALID_OBJECT_INDEX, M, T, <<0>>)
      ELSE IF index > Len(M.Node) THEN [RetOut(NOERR, M, T, <<0>>) EXCEPT !.ub = TRUE]
      ELSE LET j == M.Node[index].tank
           IN  IF j <= 0 THEN RetOut(NOERR, M, T, <<0>>)
               ELSE IF j > Len(M.Tank) \/ ~VecOK(M.Tank[j].param, param)
                    THEN [RetOut(NOERR, M, T, <<0>>) EXCEPT !.ub = TRUE]
               ELSE RetOut(NOERR, M, T, <<M.Tank[j].param.v[param]>>)
    ELSE IF type = LINK THEN
      IF index < 1 \/ index > M.Nobjects[LINK]
      THEN RetOut(ERR_INVALID_OBJECT_INDEX, M, T, <<0>>)
      ELSE IF index > Len(M.Link) \/ ~VecOK(M.Link[index].param, param)
           THEN [RetOut(NOERR, M, T, <<0>>) EXCEPT !.ub = TRUE]
      ELSE RetOut(NOERR, M, T, <<M.Link[index].param.v[param]>>)
    ELSE RetOut(ERR_INVALID_OBJECT_TYPE, M, T, <<0>>)

\* a configuration call as data: the handler it names, applied
ApplyCall(M, T, c) ==
    CASE c.op = "MSXaddNode" -> MSXaddNode(M, T, c.id)
      [] c.op = "MSXaddTank" -> MSXaddTank(M, T, c.id, Vol0, 0, VolMix0)
      [] c.op = "MSXaddLink" -> MSXaddLink(M, T, c.id, "a", "b", Len0, Frac(12), 1)
      [] c.op = "MSXaddSpecies" -> MSXaddSpecies(M, T, c.id, c.type, "MG", 0, 0)
      [] c.op = "MSXaddCoefficeint" -> MSXaddCoefficeint(M, T, PARAMETER, c.id, 7)
      [] c.op = "MSXaddpattern" -> MSXaddpattern(M, T, c.id)
      [] c.op = "MSXaddSource" -> MSXaddSource(M, T, 1, c.node, c.id, 2, "a")
      [] c.op = "MSXsetpattern" -> MSXsetpattern(M, T, c.pat, c.mult, Len(c.mult))
      [] c.op = "MSXgetpatternvalue" -> MSXgetpatternvalue(M, T, c.pat, c.period)

RECURSIVE RunCalls(_, _, _)
RunCalls(M, T, cs) ==
    IF cs = <<>> THEN [M |-> M, H |-> T]
    ELSE LET r == ApplyCall(M, T, cs[1]) IN RunCalls(r.M, r.H, Tail(cs))

\* the projects the runs start from: two nodes of which one or both are
\* tanks, in either order, and a link between them; a BULK species and
\* a WALL species, a parameter or nothing more; a pattern; the nodes added
\* before or after the species
NodeCalls ==
    LET N(id) == [op |-> "MSXaddNode", id |-> id]
        K(id) == [op |-> "MSXaddTank", id |-> id]
        L == [op |-> "MSXaddLink", id |-> "a"]
    IN  {<<N("a"), K("b"), L>>, <<K("a"), N("b"), L>>, <<K("a"), K("b"), L>>}
CoefCalls ==
    LET S(id, type) == [op |-> "MSXaddSpecies", id |-> id, type |-> type]
        P(id) == [op |-> "MSXaddCoefficeint", id |-> id]
        A == [op |-> "MSXaddpattern", id |-> "a"]
    IN  {<<S("a", BULK), S("b", WALL), A>>, <<S("a", BULK), P("b"), A>>,
         <<S("a", BULK), A>>}
ConfigCalls ==
    {n \o c : n \in NodeCalls, c \in CoefCalls} \cup {c \o n : n \in NodeCalls, c \in CoefCalls}

InitObj ==
    /\ \E cs \in ConfigCalls :
          LET r0 == MSX_open(NewProject(TRUE), HtableInit)
              r == RunCalls(r0.M, r0.H, cs)
          IN  /\ MSX = [p \in Projects |-> IF p = 1 THEN r.M ELSE NewProject(FALSE)]
              /\ Htable = r.H
    /\ prevMSX = MSX
    /\ prevHtable = Htable
    /\ last = NoCall
    /\ prior = NoCall
    /\ inited = [p \in Projects |-> FALSE]
    /\ calls = 0
    /\ cfgcalls = 0
    /\ ub = FALSE

NextObj ==
    \/ Call_addLink(1, MaxObjCalls)
    \/ Call_addSpecies(1, MaxObjCalls)
    \/ Call_addSource(1, MaxObjCalls)
    \/ Call_addParameter(1, MaxObjCalls)
    \/ Call_getindex(1, MaxObjCalls)
    \/ \E node \in IndexIn, species \in IndexIn :
          Do("MSXgetsource", 1, [node |-> node, species |-> species],
             MSXgetsource(MSX[1], Htable, node, species), MaxObjCalls)
    \/ \E type \in {NODE, LINK, TANK}, index \in IndexIn, param \in IndexIn :
          Do("MSXgetparameter", 1, [type |-> type, index |-> index, param |-> param],
             MSXgetparameter(MSX[1], Htable, type, index, param), MaxObjCalls)

SpecObj == InitObj /\ [][NextObj]_vars

\* C18: when MSXaddSource returns 0, MSXgetsource for the node and species
\* it named reports the source type and strength it was given (so a request
\* that records nothing, one naming a WALL species for example, does not
\* return 0).
C18_AddedSourceReadBack ==
    (Called /\ last.op = "MSXaddSource" /\ last.ret = NOERR /\ ~ub)
        => LET j == findObject(prevHtable, NODE, last.a.nodeId)
               m == findObject(prevHtable, SPECIES, last.a.speciesId)
               got == MSXgetsource(Cur, Htable, j, m)
           IN  /\ got.ret = NOERR
               /\ got.out[1] = last.a.sourceType
               /\ got.out[2] = last.a.strength

\* the tank with the given id among the tanks of M, 0 when there is none
TankOf(M, id) ==
    LET ks == {k \in 1..M.Nobjects[TANK] : k <= Len(M.Tank) /\ M.Tank[k].id = id}
    IN  IF ks = {} THEN 0 ELSE CHOOSE k \in ks : TRUE

\* C19: MSXaddParameter with type TANK, a defined parameter id and the id
\* of an existing tank returns 0 and stores the value as that tank's
\* override: MSXgetparameter(NODE, the tank's node index, parameter index)
\* then returns the value, and the overrides of the other tanks and of the
\* links are unchanged.
C19_TankParameterStored ==
    (/\ Called /\ last.op = "MSXaddParameter" /\ last.a.type = "TANK" /\ ~ub
     /\ ~Closed(Prev)
     /\ findObject(prevHtable, PARAMETER, last.a.paramId) \in 1..Prev.Nobjects[PARAMETER]
     /\ TankOf(Prev, last.a.id) > 0)
        => LET i == findObject(prevHtable, PARAMETER, last.a.paramId)
               k == TankOf(Prev, last.a.id)
               got == MSXgetparameter(Cur, Htable, NODE, Prev.Tank[k].node, i)
           IN  /\ last.ret = NOERR
               /\ got.ret = NOERR
               /\ got.out = <<last.a.value>>
               /\ \A h \in 1..Len(Prev.Tank) : h # k => Cur.Tank[h].param = Prev.Tank[h].param
               /\ \A h \in 1..Len(Prev.Link) : Cur.Link[h].param = Prev.Link[h].param

\* the id of the i-th object of kind K of project M, "" when the project
\* holds no such object
ObjectId(M, K, i) ==
    LET arr == CASE K = NODE -> M.Node [] K = LINK -> M.Link
                 [] K = SPECIES -> M.Species [] K = MSX_CONSTANT -> M.Const
                 [] K = PARAMETER -> M.Param [] K = PATTERN -> M.Pattern
    IN  IF i \in 1..M.Nobjects[K] /\ i <= Len(arr) THEN arr[i].id ELSE ""

\* C20: MSXgetindex on an opened project, for a kind among node, link,
\* species, constant, parameter and pattern, returns 0 with index i when the
\* id is that of the i-th object of the kind, and ERR_UNDEFINED_OBJECT_ID
\* with index 0 when the id names no object of the kind.
C20_GetIndexInverse ==
    (Called /\ last.op = "MSXgetindex" /\ ~ub /\ Prev.ProjectOpened
       /\ last.a.type \in IndexKinds)
        => LET K == last.a.type
               is == {i \in 1..Prev.Nobjects[K] : ObjectId(Prev, K, i) = last.a.id}
           IN  /\ \A i \in is : last.ret = NOERR /\ last.out = <<i>>
               /\ is = {} => (last.ret = ERR_UNDEFINED_OBJECT_ID /\ last.out = <<0>>)

----------------------------------------------------------------------------
(* Source specification: MSXaddSource, MSXsetsource and MSXgetsource on a  *)
(* configured project *)

\* (type, level, pat) of the MSXsetsource calls: the lowest and the highest
\* source kind and two between, a zero level, a negative and a zero pattern
\* index (MSXaddSource brings kind 1); then a kind below and above
\* the range, a negative level and a pattern index above the pattern count
SourceIn ==
    {<<MSX_NOSOURCE, 3, 1>>, <<MSX_FLOWPACED, 3, 1>>, <<2, 0, -1>>, <<0, 5, 0>>}
      \cup {<<-2, 3, 1>>, <<4, 3, 1>>, <<1, -1, 1>>, <<1, 3, MaxObj + 1>>}

\* the projects the runs start from: two nodes of which one or both are
\* tanks and a link between them, a BULK species, a second species that
\* is WALL or BULK, and a pattern; no source yet, or a source of the first
\* species at the second node
SourceCalls ==
    LET S(id, type) == [op |-> "MSXaddSpecies", id |-> id, type |-> type]
        A == [op |-> "MSXaddpattern", id |-> "a"]
        X == [op |-> "MSXaddSource", node |-> "b", id |-> "a"]
        C(type) == <<S("a", BULK), S("b", type), A>>
        N1 == CHOOSE n \in NodeCalls : n[1].op = "MSXaddNode"
    IN  {n \o C(WALL) \o x : n \in NodeCalls, x \in {<<>>, <<X>>}}
          \cup {N1 \o C(BULK) \o x : x \in {<<>>, <<X>>}}

InitSrc ==
    /\ \E cs \in SourceCalls :
          LET r0 == MSX_open(NewProject(TRUE), HtableInit)
              r == RunCalls(r0.M, r0.H, cs)
          IN  /\ MSX = [p \in Projects |-> IF p = 1 THEN r.M ELSE NewProject(FALSE)]
              /\ Htable = r.H
    /\ prevMSX = MSX
    /\ prevHtable = Htable
    /\ last = NoCall
    /\ prior = NoCall
    /\ inited = [p \in Projects |-> FALSE]
    /\ calls = 0
    /\ cfgcalls = 0
    /\ ub = FALSE

\* node and species indexes of the calls: the two nodes and two species of
\* the initial projects, and an index that is none
SrcIndexIn == {0, 1, 2}

NextSrc ==
    \/ Call_addSource(1, MaxSrcCalls)
    \/ \E node \in SrcIndexIn, species \in SrcIndexIn, x \in SourceIn :
          Do("MSXsetsource", 1,
             [node |-> node, species |-> species, type |-> x[1], level |-> x[2],
              pat |-> x[3]],
             MSXsetsource(MSX[1], Htable, node, species, x[1], x[2], x[3]),
             MaxSrcCalls)
    \/ \E node \in SrcIndexIn, species \in SrcIndexIn :
          Do("MSXgetsource", 1, [node |-> node, species |-> species],
             MSXgetsource(MSX[1], Htable, node, species), MaxSrcCalls)

SpecSrc == InitSrc /\ [][NextSrc]_vars

\* what MSXgetsource reports for every (node, species) pair of M
SourceReport(M, T) ==
    [n \in 1..M.Nobjects[NODE], s \in 1..M.Nobjects[SPECIES] |->
        MSXgetsource(M, T, n, s).out]

\* C21: after MSXsetsource(node, species, type, level, pat) returns 0,
\* MSXgetsource(node, species) returns 0 with exactly (type, level,
\* max(pat, 0)), and what MSXgetsource reports for every other (node,
\* species) pair is what it reported before the call.
C21_SetSourceRoundTrip ==
    (Called /\ last.op = "MSXsetsource" /\ last.ret = NOERR)
        => LET a == last.a
               got == MSXgetsource(Cur, Htable, a.node, a.species)
           IN  /\ ~ub
               /\ got.ret = NOERR
               /\ got.out = <<a.type, a.level, IF a.pat < 0 THEN 0 ELSE a.pat>>
               /\ DOMAIN SourceReport(Cur, Htable) = DOMAIN SourceReport(Prev, prevHtable)
               /\ \A ns \in DOMAIN SourceReport(Prev, prevHtable) :
                     ns # <<a.node, a.species>>
                       => SourceReport(Cur, Htable)[ns] = SourceReport(Prev, prevHtable)[ns]

\* a call with a negative pattern index has returned 0 on a pair that had a
\* source already, while the other node has a source of its own
C21_Witness ==
    /\ Called /\ last.op = "MSXsetsource" /\ last.ret = NOERR /\ last.a.pat < 0
    /\ MSXgetsource(Prev, prevHtable, last.a.node, last.a.species).out[1] # MSX_NOSOURCE
    /\ \E n \in 1..Cur.Nobjects[NODE] :
          /\ n # last.a.node
          /\ MSXgetsource(Cur, Htable, n, last.a.species).out[1] # MSX_NOSOURCE

----------------------------------------------------------------------------
(* Pattern value specification: reads and writes of single multipliers on  *)
(* a project that has its patterns *)

\* the projects the runs start from: pattern a with zero to MaxMult
\* multipliers and pattern b with none or two; the cursor of a where
\* MSXsetpattern left it, or where a poll of period 0 or 2 left it
PatternCalls ==
    LET A(id) == [op |-> "MSXaddpattern", id |-> id]
        V(pat, mult) == [op |-> "MSXsetpattern", pat |-> pat, mult |-> mult]
        G(period) == [op |-> "MSXgetpatternvalue", pat |-> 1, period |-> period]
    IN  {<<A("a"), A("b"), V(1, m1), V(2, m2)>> \o g :
            m1 \in MultSeqs, m2 \in {<<>>, <<3, 1>>},
            g \in {<<>>, <<G(0)>>, <<G(2)>>}}

InitVal ==
    /\ \E cs \in PatternCalls :
          LET r0 == MSX_open(NewProject(TRUE), HtableInit)
              r == RunCalls(r0.M, r0.H, cs)
          IN  /\ MSX = [p \in Projects |-> IF p = 1 THEN r.M ELSE NewProject(FALSE)]
              /\ Htable = r.H
    /\ prevMSX = MSX
    /\ prevHtable = Htable
    /\ last = NoCall
    /\ prior = NoCall
    /\ inited = [p \in Projects |-> FALSE]
    /\ calls = 0
    /\ cfgcalls = 0
    /\ ub = FALSE

NextVal ==
    \/ Call_setpatternvalue(1, MaxValCalls)
    \/ Call_getpatternvalue(1, MaxValCalls)
    \/ Call_getpatternlen(1, MaxValCalls)

SpecVal == InitVal /\ [][NextVal]_vars

\* C22: on an open project and a valid pattern index, MSXsetpatternvalue(pat,
\* period, value) with 1 <= period <= length(pat) returns 0, after which
\* MSXgetpatternvalue(pat, period) returns value while the length of pat,
\* every other period of pat and every other pattern are as before; with
\* period outside 1..length(pat) it returns ERR_INVALID_OBJECT_PARAMS and no
\* multiplier of any pattern changes.
C22_SetPatternValueFrame ==
    (Called /\ last.op = "MSXsetpatternvalue" /\ Prev.ProjectOpened
       /\ ValidPat(Prev, last.a.pat))
        => LET pat == last.a.pat
               n == Prev.Pattern[pat].length
               others == \A h \in 1..Prev.Nobjects[PATTERN] :
                           h # pat => Cur.Pattern[h] = Prev.Pattern[h]
           IN  /\ ~ub
               /\ Cur.Nobjects[PATTERN] = Prev.Nobjects[PATTERN]
               /\ MSXgetpatternlen(Cur, Htable, pat).out = <<n>>
               /\ others
               /\ IF last.a.period \in 1..n
                  THEN /\ last.ret = NOERR
                       /\ LET got == MSXgetpatternvalue(Cur, Htable, pat, last.a.period)
                          IN  got.ret = NOERR /\ got.out = <<last.a.value>>
                       /\ \A i \in 1..n :
                             i # last.a.period
                               => MSXgetpatternvalue(Cur, Htable, pat, i).out
                                    = MSXgetpatternvalue(Prev, prevHtable, pat, i).out
                  ELSE /\ last.ret = ERR_INVALID_OBJECT_PARAMS
                       /\ Cur.Pattern[pat].first = Prev.Pattern[pat].first

\* the last of two periods of a pattern has been given a value it did not
\* hold, while the other pattern has multipliers of its own
C22_Witness ==
    /\ Called /\ last.op = "MSXsetpatternvalue" /\ last.ret = NOERR
    /\ last.a.period = 2
    /\ Prev.Pattern[last.a.pat].first[2] # last.a.value
    /\ Cur.Pattern[last.a.pat].first[1] # last.a.value
    /\ \E h \in 1..Cur.Nobjects[PATTERN] :
          h # last.a.pat /\ Cur.Pattern[h].length > 0

\* the position in the source list of node j of the source of species m,
\* 0 when the list holds none
SourceAt(M, j, m) ==
    LET hits == {k \in 1..Len(M.Node[j].sources) : M.Node[j].sources[k].species = m}
    IN  IF hits = {} THEN 0 ELSE CHOOSE k \in hits : \A h \in hits : k <= h

\* the (node, species, kind, strength, pattern) a call of MSXaddSource or
\* MSXsetsource names; the pattern is what the lookup of the pattern id
\* returns when MSXaddSource names it, the clamped index otherwise
NamedSource ==
    IF last.op = "MSXaddSource"
    THEN [node |-> findObject(prevHtable, NODE, last.a.nodeId),
          species |-> findObject(prevHtable, SPECIES, last.a.speciesId),
          type |-> last.a.sourceType, c0 |-> last.a.strength,
          pat |-> findObject(prevHtable, PATTERN, last.a.timePattern)]
    ELSE [node |-> last.a.node, species |-> last.a.species, type |-> last.a.type,
          c0 |-> last.a.level, pat |-> IF last.a.pat < 0 THEN 0 ELSE last.a.pat]

\* C23: the source list of every node holds at most one source per
\* species, and a call of MSXaddSource or MSXsetsource that returns 0 for a
\* (node, species) pair that has a source leaves the list as long as it was
\* and assigns the kind, strength and pattern of that one entry.
C23_OneSourcePerSpecies ==
    /\ \A j \in 1..Len(MSX[1].Node) :
          \A k, h \in 1..Len(MSX[1].Node[j].sources) :
             k # h => MSX[1].Node[j].sources[k].species # MSX[1].Node[j].sources[h].species
    /\ (/\ Called /\ last.op \in {"MSXaddSource", "MSXsetsource"} /\ last.ret = NOERR
        /\ NamedSource.node \in 1..Len(Prev.Node)
        /\ SourceAt(Prev, NamedSource.node, NamedSource.species) > 0)
          => LET c == NamedSource
                 k == SourceAt(Prev, c.node, c.species)
             IN  Cur.Node[c.node].sources =
                    [Prev.Node[c.node].sources EXCEPT
                       ![k] = [type |-> c.type, species |-> c.species,
                               c0 |-> c.c0, pat |-> c.pat]]

\* a call has returned 0 for a pair whose source was the second of two in
\* the node's list, with a kind or strength the source did not have
C23_Witness ==
    /\ Called /\ last.op \in {"MSXaddSource", "MSXsetsource"} /\ last.ret = NOERR
    /\ NamedSource.node \in 1..Len(Prev.Node)
    /\ SourceAt(Prev, NamedSource.node, NamedSource.species) = 2
    /\ Len(Cur.Node[NamedSource.node].sources) = 2
    /\ Cur.Node[NamedSource.node].sources[2] # Prev.Node[NamedSource.node].sources[2]

----------------------------------------------------------------------------
(* Properties of the topology specification: node and tank cross-references *)

\* C24: on an open project, after any sequence of MSXaddNode, MSXaddTank and
\* MSXaddReservoir calls, every tank k in 1..Ntanks names a valid node whose
\* tank index is k, and every node's tank index is 0 or that of a tank
\* whose node is this node.
C24_NodeTankCrossRefs ==
    LET M == MSX[1]
        nNodes == M.Nobjects[NODE]
        nTanks == M.Nobjects[TANK]
    IN  M.ProjectOpened
          => /\ Len(M.Node) = nNodes
             /\ Len(M.Tank) = nTanks
             /\ \A k \in 1..nTanks :
                   /\ M.Tank[k].node \in 1..nNodes
                   /\ M.Node[M.Tank[k].node].tank = k
             /\ \A i \in 1..nNodes :
                   \/ M.Node[i].tank = 0
                   \/ /\ M.Node[i].tank \in 1..nTanks
                      /\ M.Tank[M.Node[i].tank].node = i

\* a tank or reservoir has been added after a plain node, so that its tank
\* index and its node index differ
C24_Witness ==
    /\ Called /\ last.op \in {"MSXaddTank", "MSXaddReservoir"} /\ last.ret = NOERR
    /\ Cur.Nobjects[TANK] >= 1
    /\ Cur.Tank[Cur.Nobjects[TANK]].node # Cur.Nobjects[TANK]
    /\ \E i \in 1..Cur.Nobjects[NODE] : Cur.Node[i].tank = 0

\* C25: on an open project, after any sequence of add calls in any order,
\* every node and every link has an initial-concentration vector with a slot
\* for each of the Nspecies species, and every link and every tank has a
\* parameter vector with a slot for each parameter.
C25_VectorsAllocated ==
    LET M == MSX[1]
    IN  (M.ProjectOpened /\ ~ub)
          => /\ \A i \in 1..M.Nobjects[NODE], m \in 1..M.Nobjects[SPECIES] :
                   i <= Len(M.Node) /\ VecOK(M.Node[i].c0, m)
             /\ \A i \in 1..M.Nobjects[LINK], m \in 1..M.Nobjects[SPECIES] :
                   i <= Len(M.Link) /\ VecOK(M.Link[i].c0, m)
             /\ \A i \in 1..M.Nobjects[LINK], k \in 1..M.Nobjects[PARAMETER] :
                   i <= Len(M.Link) /\ VecOK(M.Link[i].param, k)
             /\ \A i \in 1..M.Nobjects[TANK], k \in 1..M.Nobjects[PARAMETER] :
                   i <= Len(M.Tank) /\ VecOK(M.Tank[i].param, k)

----------------------------------------------------------------------------
(* Stored value specification: initial concentrations and parameter        *)
(* overrides on a configured project, and the addition of further species  *)
(* and parameters *)

NextVec ==
    \/ Call_addSpecies(1, MaxVecCalls)
    \/ Call_addCoefficeint(1, MaxVecCalls)
    \/ Call_addQuality(1, MaxVecCalls)
    \/ Call_addParameter(1, MaxVecCalls)
    \/ Call_setinitqual(1, MaxVecCalls)
    \/ Call_setparameter(1, MaxVecCalls)

SpecVec == InitObj /\ [][NextVec]_vars

\* slots 1..n of vec hold in project Mb what they held in project Ma
SameSlots(va, vb, n) ==
    \A m \in 1..n : VecOK(va, m) => (VecOK(vb, m) /\ vb.v[m] = va.v[m])

\* C26: a call of MSXaddSpecies, or of MSXaddCoefficeint with PARAMETER, that
\* returns 0 leaves the initial concentrations of every node and link for
\* the species that existed, and the parameter overrides of every link and
\* tank for the parameters that existed, as they were.
C26_AddKeepsStoredValues ==
    (/\ Called /\ ~ub /\ last.ret = NOERR
     /\ \/ last.op = "MSXaddSpecies"
        \/ last.op = "MSXaddCoefficeint" /\ last.a.type = PARAMETER)
        => LET ns == Prev.Nobjects[SPECIES]
               np == Prev.Nobjects[PARAMETER]
           IN  /\ \A i \in 1..Len(Prev.Node) :
                     SameSlots(Prev.Node[i].c0, Cur.Node[i].c0, ns)
               /\ \A i \in 1..Len(Prev.Link) :
                     /\ SameSlots(Prev.Link[i].c0, Cur.Link[i].c0, ns)
                     /\ SameSlots(Prev.Link[i].param, Cur.Link[i].param, np)
               /\ \A i \in 1..Len(Prev.Tank) :
                     SameSlots(Prev.Tank[i].param, Cur.Tank[i].param, np)

\* C27: MSXgetpatternvalue changes nothing in the project: for every pattern
\* index and every period, periods <= 0 and periods above the length
\* included, the multipliers, the length and the current-period cursor of
\* every pattern are after the call what they were before it.
C27_GetPatternValuePure ==
    (Called /\ last.op = "MSXgetpatternvalue")
        => /\ Cur.Nobjects[PATTERN] = Prev.Nobjects[PATTERN]
           /\ \A h \in 1..Len(Prev.Pattern) :
                 /\ Cur.Pattern[h].first = Prev.Pattern[h].first
                 /\ Cur.Pattern[h].length = Prev.Pattern[h].length
                 /\ Cur.Pattern[h].current = Prev.Pattern[h].current

----------------------------------------------------------------------------
(* Properties of the topology specification: lifetime of the name tables *)

\* C28: the name hash tables and the id pool are freed once per creation:
\* MSX_close is not applied to tables a previous MSX_close has freed (with
\* no MSX_open between), and MSX_open does not replace tables that are still
\* allocated (with no MSX_close between).
C28_TablesFreedOnce ==
    Called =>
       /\ (last.op = "MSX_close" => prevHtable.st # "freed")
       /\ (last.op = "MSX_open" => prevHtable.st # "live")

----------------------------------------------------------------------------
(* Adjacency specification: buildadjlists on projects with their nodes and *)
(* links, under every number of allocations granted *)

\* MSX_open, MSXaddNode("a"), MSXaddNode or MSXaddTank ("b"), then the links
\* whose (start, end) the sequence ends gives, named "a" and "b"
AdjNet(tank, ends) ==
    LET r0 == MSX_open(NewProject(TRUE), HtableInit)
        r1 == MSXaddNode(r0.M, r0.H, "a")
        r2 == IF tank THEN MSXaddTank(r1.M, r1.H, "b", Vol0, 0, VolMix0)
              ELSE MSXaddNode(r1.M, r1.H, "b")
        r3 == IF Len(ends) >= 1
              THEN MSXaddLink(r2.M, r2.H, "a", ends[1][1], ends[1][2], Len0, Frac(12), 1)
              ELSE r2
    IN  IF Len(ends) >= 2
        THEN MSXaddLink(r3.M, r3.H, "b", ends[2][1], ends[2][2], Len0, Frac(12), 1)
        ELSE r3

EndsIn == {<<>>} \cup {<<e>> : e \in IDS \X IDS}
             \cup {<<e, <<"a", "b">>>> : e \in IDS \X IDS}

InitAdj ==
    /\ \E tank \in BOOLEAN, ends \in EndsIn :
          /\ MSX = [p \in Projects |->
                      IF p = 1 THEN AdjNet(tank, ends).M ELSE NewProject(FALSE)]
          /\ Htable = AdjNet(tank, ends).H
    /\ prevMSX = MSX
    /\ prevHtable = Htable
    /\ last = NoCall
    /\ prior = NoCall
    /\ inited = [p \in Projects |-> FALSE]
    /\ calls = 0
    /\ cfgcalls = 0
    /\ ub = FALSE

NextAdj ==
    \/ Call_addLink(1, MaxAdjCalls)
    \/ \E mem \in 0..(2 * MaxObj + 1) :
          LET r == buildadjlists(MSX[1], mem)
          IN  Do("buildadjlists", 1, [mem |-> mem],
                 [ret |-> r.ret, M |-> r.M, H |-> Htable, ub |-> r.ub, out |-> <<>>],
                 MaxAdjCalls)

SpecAdj == InitAdj /\ [][NextAdj]_vars

\* number of entries of list that are (neighbour node, link k)
AdjCount(list, node, k) ==
    Cardinality({h \in 1..Len(list) : list[h] = [node |-> node, link |-> k]})

RECURSIVE AdjTotal(_, _)
AdjTotal(lists, n) == IF n = 0 THEN 0 ELSE Len(lists[n]) + AdjTotal(lists, n - 1)

\* C29: after buildadjlists returns 0, for every link k with end nodes (n1,
\* n2) the list of n1 holds exactly one entry (n2, k) and the list of n2
\* exactly one entry (n1, k), and the lists hold 2 * Nlinks entries in all;
\* after it returns non-zero no entry remains allocated and the project's
\* adjacency pointer is NULL, not a pointer to freed memory.
C29_AdjacencyLists ==
    (Called /\ last.op = "buildadjlists" /\ ~ub)
        => IF last.ret = NOERR
           THEN /\ Cur.Adjlist.st = "ok"
                /\ \A k \in 1..Cur.Nobjects[LINK] :
                      LET n1 == Cur.Link[k].n1
                          n2 == Cur.Link[k].n2
                      IN  /\ AdjCount(Cur.Adjlist.list[n1], n2, k) = 1
                          /\ AdjCount(Cur.Adjlist.list[n2], n1, k) = 1
                /\ AdjTotal(Cur.Adjlist.list, Cur.Nobjects[NODE])
                      = 2 * Cur.Nobjects[LINK]
           ELSE Cur.Adjlist.st = "null"

----------------------------------------------------------------------------
(* Legacy open specification: MSXproj_open and MSXproj_close on one project *)

\* input files: no node; two nodes and a link; two nodes, two links (one
\* from a node to itself) and a report file
FileIn ==
    {[nodes |-> 0, ends |-> <<>>, rpt |-> FALSE],
     [nodes |-> 2, ends |-> <<<<1, 2>>>>, rpt |-> FALSE],
     [nodes |-> 2, ends |-> <<<<1, 2>>, <<2, 2>>>>, rpt |-> TRUE]}

CallStages == {OpenStages[i] : i \in 1..Len(OpenStages)}

FailIn == {"none"} \cup (CallStages \ {"createObjects", "convertUnits"})

NextLeg ==
    \/ \E fileOK \in BOOLEAN, f \in FileIn, fail \in FailIn,
          mem \in 0..(2 * MaxObj + 1) :
          Do("MSXproj_open", 1,
             [fileOK |-> fileOK, f |-> f, fail |-> fail, mem |-> mem],
             MSXproj_open(MSX[1], Htable, fileOK, f, fail, mem), MaxLegCalls)
    \/ Do("MSXproj_close", 1, [id |-> ""], MSXproj_close(MSX[1], Htable),
          MaxLegCalls)

SpecLeg == Init /\ [][NextLeg]_vars

\* C30: on every return from MSXproj_open after the input file was opened,
\* the input file has been closed, and ProjectOpened is TRUE exactly when
\* the returned code is 0; once a stage has produced a code above 100,
\* no later CALL-wrapped stage runs and that code is the one returned.
C30_LegacyOpenReturns ==
    (Called /\ last.op = "MSXproj_open" /\ last.a.fileOK /\ ~ub)
        => /\ Cur.MsxFile = "NULL"
           /\ Cur.ProjectOpened <=> (last.ret = NOERR)
           /\ \A i \in 1..Len(last.out) :
                 (last.out[i].stage \in CallStages /\ ErrNum(last.out[i].code) > 100)
                    => /\ \A j \in (i + 1)..Len(last.out) :
                             last.out[j].stage \notin CallStages
                       /\ last.ret = last.out[i].code
====
